---- MODULE Spec2Model ----
(***************************************************************************)
(* Model of the regex content search of crates/pi-natives/src/grep.rs:     *)
(* the streaming MatchCollector, the in-memory search(), and grep() over a *)
(* file tree with its parallel and sequential strategies; and of the task  *)
(* scheduling of crates/pi-natives/src/work.rs (launch_task, WorkHandle).  *)
(*                                                                         *)
(* A stream is a sequence of lines; a line is TRUE when the compiled       *)
(* pattern matches it.  A line's text is a function of its line number, so *)
(* records carry line numbers; truncation of the text is a separate pure   *)
(* function.  Option<T> is a sequence: <<>> is None, <<v>> is Some(v).     *)
(***************************************************************************)
EXTENDS Integers, Sequences, FiniteSets, TLC

VARIABLES
    stream,      \* the lines handed to searcher.search_reader (TRUE = match)
    ctx,         \* before/after context configured in the searcher
    collector,   \* the MatchCollector of the pass
    pos,         \* next line the searcher will look at (1-based)
    scan,        \* "idle" | "running" | "stopped" | "eof" | "returned" | "failed"
    last_signal, \* what the last match notification returned: "none" | "continue" | "stop"
    notified,    \* number of match notifications delivered by the searcher
    result,      \* <<>> until search_sync returns, then <<SearchResult>>
    opts,        \* the SearchOptions of the call (max_count, offset, context, mode)
    page,        \* pagination session of search(): phase, k and the three responses
    tree,        \* grep: the candidate files under the root, path -> content/status
    req,         \* grep: the request (root kind, max_count, offset, context, mode)
    gpc,         \* grep: position in grep_sync
    strategy,    \* grep: "none" | "single" | "empty" | "parallel" | "sequential"
    entries,     \* grep: collect_files' list, in walk order
    pending,     \* parallel: indices of entries whose worker has not finished
    results,     \* parallel: run_parallel_search's results vector
    seq,         \* sequential: the locals of run_sequential_search
    report,      \* grep: <<>> until grep_sync returns, then <<GrepResult>>
    callbacks,   \* grep: records handed to on_match, in call order
    reference,   \* <<>>, or the sequential reference run over the same entries
    pool,        \* work: the shared pool, "uninit" | "built" | "aborted"
    queue,       \* work: the spawned jobs no pool thread has taken yet, oldest first
    tasks,       \* work: one record per launch_task call, in launch order
    trunc,       \* truncate_line: the line, max_columns and, once called, the outcome
    filt,        \* filters: a path, a type shorthand, a glob and, once applied, the outcome
    fuzzy,       \* fuzzy_find: the request, the walk and the locals of fuzzy_find_sync
    once         \* thread_pool: the OnceLock POOL, the pools built and the callers of launch_task

vars == <<stream, ctx, collector, pos, scan, last_signal, notified, result, opts, page,
          tree, req, gpc, strategy, entries, pending, results, seq, report,
          callbacks, reference, pool, queue, tasks, trunc, filt, fuzzy, once>>

searchVars == <<stream, ctx, collector, pos, scan, last_signal, notified, result, opts>>
grepVars == <<tree, req, gpc, strategy, entries, pending, results, seq, report,
              callbacks, reference>>
workVars == <<pool, queue, tasks>>
auxVars == <<filt, fuzzy, once>>

\* ------------------------------------------------------------------ bounds
MaxTasks == 2
MaxChars == 4
MaxColumns == 4
PoolThreads == 2
MaxLines == 5       \* lines of a stream scanned by one collector pass
MaxOffset == 2      \* largest offset requested
MaxMax == 2         \* largest max_count requested
MaxCtx == 2         \* largest context size requested
MaxFileLines == 2   \* lines of a file under a grep root

\* ------------------------------------------------------------------ helpers
None == <<>>
Some(v) == <<v>>
IsSome(o) == o # <<>>
Unwrap(o) == o[1]

\* options.offset.unwrap_or(0)
OffsetOf(o) == IF IsSome(o) THEN Unwrap(o) ELSE 0

Min(a, b) == IF a < b THEN a ELSE b

\* u64::saturating_sub
saturating_sub(a, b) == IF a > b THEN a - b ELSE 0

Streams(n) == UNION {[1..k -> BOOLEAN] : k \in 0..n}

Options(n) == {None} \cup {Some(v) : v \in 0..n}

Modes == {"Content", "Count"}

\* parse_output_mode: "count" and "filesWithMatches" select Count, anything
\* else (absent included) Content.
parse_output_mode(mode) ==
    IF mode \in {Some("count"), Some("filesWithMatches")} THEN "Count" ELSE "Content"

\* clamp_u32: min(value, u32::MAX).  Every count of the model is far below
\* 2^32, where the minimum is the value.
clamp_u32(value) == value

\* ------------------------------------------------------------ MatchCollector
MatchCollector_new(max_count, offset, collect_matches) ==
    [matches         |-> <<>>,
     match_count     |-> 0,
     collected_count |-> 0,
     max_count       |-> max_count,
     offset          |-> offset,
     skipped         |-> 0,
     limit_reached   |-> FALSE,
     context_before  |-> <<>>,
     collect_matches |-> collect_matches]

CollectedMatch(line_number, before) ==
    [line_number    |-> line_number,
     context_before |-> before,
     context_after  |-> <<>>]

\* matched with the limit test written > instead of >=.
matched_limit_late(c, line_number) ==
    LET counted == [c EXCEPT !.match_count = @ + 1] IN
    IF c.limit_reached THEN
        [c |-> counted, go |-> FALSE]
    ELSE IF c.skipped < c.offset THEN
        [c |-> [counted EXCEPT !.skipped = @ + 1, !.context_before = <<>>],
         go |-> TRUE]
    ELSE
        LET pushed ==
                IF c.collect_matches
                THEN [counted EXCEPT
                        !.matches = Append(@, CollectedMatch(line_number, c.context_before)),
                        !.context_before = <<>>]
                ELSE [counted EXCEPT !.context_before = <<>>]
            collected == [pushed EXCEPT !.collected_count = @ + 1]
            limited ==
                IF IsSome(c.max_count) /\ collected.collected_count > Unwrap(c.max_count)
                THEN [collected EXCEPT !.limit_reached = TRUE]
                ELSE collected
        IN [c |-> limited, go |-> TRUE]

\* matched with match_count incremented after the limit_reached test, so the
\* notification that stops the scan is not counted.
matched_count_after_stop(c, line_number) ==
    LET counted == [c EXCEPT !.match_count = @ + 1] IN
    IF c.limit_reached THEN
        [c |-> c, go |-> FALSE]
    ELSE IF c.skipped < c.offset THEN
        [c |-> [counted EXCEPT !.skipped = @ + 1, !.context_before = <<>>],
         go |-> TRUE]
    ELSE
        LET pushed ==
                IF c.collect_matches
                THEN [counted EXCEPT
                        !.matches = Append(@, CollectedMatch(line_number, c.context_before)),
                        !.context_before = <<>>]
                ELSE [counted EXCEPT !.context_before = <<>>]
            collected == [pushed EXCEPT !.collected_count = @ + 1]
            limited ==
                IF IsSome(c.max_count) /\ collected.collected_count >= Unwrap(c.max_count)
                THEN [collected EXCEPT !.limit_reached = TRUE]
                ELSE collected
        IN [c |-> limited, go |-> TRUE]

\* matched that keeps the buffered before-context when it skips a match.
matched_skip_keeps_before(c, line_number) ==
    LET counted == [c EXCEPT !.match_count = @ + 1] IN
    IF c.limit_reached THEN
        [c |-> counted, go |-> FALSE]
    ELSE IF c.skipped < c.offset THEN
        [c |-> [counted EXCEPT !.skipped = @ + 1], go |-> TRUE]
    ELSE
        LET pushed ==
                IF c.collect_matches
                THEN [counted EXCEPT
                        !.matches = Append(@, CollectedMatch(line_number, c.context_before)),
                        !.context_before = <<>>]
                ELSE [counted EXCEPT !.context_before = <<>>]
            collected == [pushed EXCEPT !.collected_count = @ + 1]
            limited ==
                IF IsSome(c.max_count) /\ collected.collected_count >= Unwrap(c.max_count)
                THEN [collected EXCEPT !.limit_reached = TRUE]
                ELSE collected
        IN [c |-> limited, go |-> TRUE]

\* matched that returns the stop signal from the notification that reaches
\* max_count.
matched_stops_at_limit(c, line_number) ==
    LET counted == [c EXCEPT !.match_count = @ + 1] IN
    IF c.limit_reached THEN
        [c |-> counted, go |-> FALSE]
    ELSE IF c.skipped < c.offset THEN
        [c |-> [counted EXCEPT !.skipped = @ + 1, !.context_before = <<>>],
         go |-> TRUE]
    ELSE
        LET pushed ==
                IF c.collect_matches
                THEN [counted EXCEPT
                        !.matches = Append(@, CollectedMatch(line_number, c.context_before)),
                        !.context_before = <<>>]
                ELSE [counted EXCEPT !.context_before = <<>>]
            collected == [pushed EXCEPT !.collected_count = @ + 1]
            limited ==
                IF IsSome(c.max_count) /\ collected.collected_count >= Unwrap(c.max_count)
                THEN [collected EXCEPT !.limit_reached = TRUE]
                ELSE collected
        IN [c |-> limited, go |-> ~limited.limit_reached]

\* matched that skips while skipped <= offset.
matched_skips_one_more(c, line_number) ==
    LET counted == [c EXCEPT !.match_count = @ + 1] IN
    IF c.limit_reached THEN
        [c |-> counted, go |-> FALSE]
    ELSE IF c.skipped <= c.offset THEN
        [c |-> [counted EXCEPT !.skipped = @ + 1, !.context_before = <<>>],
         go |-> TRUE]
    ELSE
        LET pushed ==
                IF c.collect_matches
                THEN [counted EXCEPT
                        !.matches = Append(@, CollectedMatch(line_number, c.context_before)),
                        !.context_before = <<>>]
                ELSE [counted EXCEPT !.context_before = <<>>]
            collected == [pushed EXCEPT !.collected_count = @ + 1]
            limited ==
                IF IsSome(c.max_count) /\ collected.collected_count >= Unwrap(c.max_count)
                THEN [collected EXCEPT !.limit_reached = TRUE]
                ELSE collected
        IN [c |-> limited, go |-> TRUE]

\* matched that puts the new match at the front of the list.
matched_push_front(c, line_number) ==
    LET counted == [c EXCEPT !.match_count = @ + 1] IN
    IF c.limit_reached THEN
        [c |-> counted, go |-> FALSE]
    ELSE IF c.skipped < c.offset THEN
        [c |-> [counted EXCEPT !.skipped = @ + 1, !.context_before = <<>>],
         go |-> TRUE]
    ELSE
        LET pushed ==
                IF c.collect_matches
                THEN [counted EXCEPT
                        !.matches = <<CollectedMatch(line_number, c.context_before)>> \o @,
                        !.context_before = <<>>]
                ELSE [counted EXCEPT !.context_before = <<>>]
            collected == [pushed EXCEPT !.collected_count = @ + 1]
            limited ==
                IF IsSome(c.max_count) /\ collected.collected_count >= Unwrap(c.max_count)
                THEN [collected EXCEPT !.limit_reached = TRUE]
                ELSE collected
        IN [c |-> limited, go |-> TRUE]

\* matched that returns the continue signal when it finds the limit reached.
matched_continues_after_limit(c, line_number) ==
    LET counted == [c EXCEPT !.match_count = @ + 1] IN
    IF c.limit_reached THEN
        [c |-> counted, go |-> TRUE]
    ELSE IF c.skipped < c.offset THEN
        [c |-> [counted EXCEPT !.skipped = @ + 1, !.context_before = <<>>],
         go |-> TRUE]
    ELSE
        LET pushed ==
                IF c.collect_matches
                THEN [counted EXCEPT
                        !.matches = Append(@, CollectedMatch(line_number, c.context_before)),
                        !.context_before = <<>>]
                ELSE [counted EXCEPT !.context_before = <<>>]
            collected == [pushed EXCEPT !.collected_count = @ + 1]
            limited ==
                IF IsSome(c.max_count) /\ collected.collected_count >= Unwrap(c.max_count)
                THEN [collected EXCEPT !.limit_reached = TRUE]
                ELSE collected
        IN [c |-> limited, go |-> TRUE]

\* Sink::matched.  Returns the collector after the notification and the
\* signal handed back to the searcher (TRUE = continue, FALSE = stop).
matched(c, line_number) ==
    LET counted == [c EXCEPT !.match_count = @ + 1] IN
    IF c.limit_reached THEN
        [c |-> counted, go |-> FALSE]
    ELSE IF c.skipped < c.offset THEN
        [c |-> [counted EXCEPT !.skipped = @ + 1, !.context_before = <<>>],
         go |-> TRUE]
    ELSE
        LET pushed ==
                IF c.collect_matches
                THEN [counted EXCEPT
                        !.matches = Append(@, CollectedMatch(line_number, c.context_before)),
                        !.context_before = <<>>]
                ELSE [counted EXCEPT !.context_before = <<>>]
            collected == [pushed EXCEPT !.collected_count = @ + 1]
            limited ==
                IF IsSome(c.max_count) /\ collected.collected_count >= Unwrap(c.max_count)
                THEN [collected EXCEPT !.limit_reached = TRUE]
                ELSE collected
        IN [c |-> limited, go |-> TRUE]

\* Sink::context without its After arm.
context_without_after(c, kind, line_number) ==
    IF ~c.collect_matches THEN c
    ELSE IF kind = "Before" THEN
        [c EXCEPT !.context_before = Append(@, clamp_u32(line_number))]
    ELSE c

\* Sink::context whose After arm appends to the first retained match.
context_after_to_first(c, kind, line_number) ==
    IF ~c.collect_matches THEN c
    ELSE IF kind = "Before" THEN
        [c EXCEPT !.context_before = Append(@, clamp_u32(line_number))]
    ELSE IF kind = "After" THEN
        IF c.matches # <<>>
        THEN [c EXCEPT !.matches[1].context_after = Append(@, clamp_u32(line_number))]
        ELSE c
    ELSE c

\* Sink::context.  kind is "Before", "After" or "Other"; always continues.
context(c, kind, line_number) ==
    IF ~c.collect_matches THEN c
    ELSE IF kind = "Before" THEN
        [c EXCEPT !.context_before = Append(@, clamp_u32(line_number))]
    ELSE IF kind = "After" THEN
        IF c.matches # <<>>
        THEN [c EXCEPT !.matches[Len(c.matches)].context_after =
                            Append(@, clamp_u32(line_number))]
        ELSE c
    ELSE c

\* ------------------------------------------------------------------ searcher
\* The searcher built by build_searcher walks the lines in order.  A matching
\* line is a match notification; a non-matching line within n lines after
\* the last match is after-context; otherwise, a non-matching line within n
\* lines before the next match is before-context; any other line is not
\* reported.
LastMatchBefore(s, i) ==
    LET ms == {j \in 1..(i - 1) : s[j]} IN
    IF ms = {} THEN 0 ELSE CHOOSE j \in ms : \A k \in ms : k <= j

EventKind(s, n, i) ==
    IF s[i] THEN "Match"
    ELSE IF LastMatchBefore(s, i) > 0 /\ i - LastMatchBefore(s, i) <= n THEN "After"
    ELSE IF \E j \in (i + 1)..Min(i + n, Len(s)) : s[j] THEN "Before"
    ELSE "Skip"

\* build_searcher given the requested context in either mode.
searcher_context_as_requested(mode, context_n) == context_n

\* build_searcher is given the requested context in content mode and 0 in
\* count mode (run_search_reader).
searcher_context(mode, context_n) == IF mode = "Content" THEN context_n ELSE 0

\* searcher.search_reader(matcher, reader, &mut collector): feed the events
\* of lines i.. to the collector until the end or a stop signal.
RECURSIVE search_reader(_, _, _, _)
search_reader(s, n, c, i) ==
    IF i > Len(s) THEN c
    ELSE
        LET kind == EventKind(s, n, i) IN
        IF kind = "Match" THEN
            LET r == matched(c, i) IN
            IF r.go THEN search_reader(s, n, r.c, i + 1) ELSE r.c
        ELSE IF kind = "Skip" THEN search_reader(s, n, c, i + 1)
        ELSE search_reader(s, n, context(c, kind, i), i + 1)

SearchResultInternal(c) ==
    [matches       |-> c.matches,
     match_count   |-> c.match_count,
     collected     |-> c.collected_count,
     limit_reached |-> c.limit_reached]

run_search_reader(s, context_n, mode, max_count, offset) ==
    SearchResultInternal(
        search_reader(s, searcher_context(mode, context_n),
                      MatchCollector_new(max_count, offset, mode = "Content"), 1))

\* run_search wraps the content in a Cursor.
run_search(s, context_n, mode, max_count, offset) ==
    run_search_reader(s, context_n, mode, max_count, offset)

\* to_public_match: line number clamped, an empty context becomes None.
to_public_match(m) ==
    [line_number    |-> clamp_u32(m.line_number),
     context_before |-> IF m.context_before = <<>> THEN None ELSE Some(m.context_before),
     context_after  |-> IF m.context_after = <<>> THEN None ELSE Some(m.context_after)]

SearchResult(r) ==
    [matches       |-> [i \in 1..Len(r.matches) |-> to_public_match(r.matches[i])],
     match_count   |-> clamp_u32(r.match_count),
     limit_reached |-> r.limit_reached,
     error         |-> None]

\* The patterns of the model: one that compiles, whose matches are the TRUE
\* lines of a stream, and one the regex builder rejects (an unclosed group).
Patterns == {"x", "("}

\* build_matcher: the matcher, or the error "Regex error: ...".
build_matcher(pattern) ==
    IF pattern = "(" THEN [ok |-> FALSE, err |-> "Regex error"] ELSE [ok |-> TRUE]

\* empty_search_result carrying no error whatever it is given.
empty_search_result_drops_error(error) ==
    [matches |-> <<>>, match_count |-> 0, limit_reached |-> FALSE, error |-> None]

empty_search_result(error) ==
    [matches |-> <<>>, match_count |-> 0, limit_reached |-> FALSE, error |-> error]

\* search_sync: offset defaults to 0.  run_search reads from a Cursor over
\* the content, which cannot fail, so its Err branch is never taken.
search_sync(pattern, s, context_n, mode, max_count, offset) ==
    IF ~build_matcher(pattern).ok
    THEN empty_search_result(Some(build_matcher(pattern).err))
    ELSE SearchResult(run_search(s, context_n, mode, max_count, OffsetOf(offset)))

\* ------------------------------------------------------------ paths, order
\* A path below the root is a sequence of components; a component and a
\* relative-path string are sequences of one-character strings.
ByteOf(ch) ==
    CASE ch = "-" -> 45 [] ch = "." -> 46 [] ch = "/" -> 47 [] ch = "B" -> 66
      [] ch = "a" -> 97 [] ch = "b" -> 98 [] ch = "c" -> 99 [] ch = "d" -> 100
      [] ch = "m" -> 109 [] ch = "o" -> 111 [] ch = "p" -> 112
      [] ch = "s" -> 115 [] ch = "y" -> 121

\* Ord for str / OsStr: lexicographic on the bytes.
RECURSIVE str_cmp_less(_, _)
str_cmp_less(x, y) ==
    IF y = <<>> THEN FALSE
    ELSE IF x = <<>> THEN TRUE
    ELSE IF ByteOf(Head(x)) # ByteOf(Head(y)) THEN ByteOf(Head(x)) < ByteOf(Head(y))
    ELSE str_cmp_less(Tail(x), Tail(y))

\* Ord for Path (the walker's sort_by_file_path(|a, b| a.cmp(b))): component
\* by component, each component compared on its bytes.
RECURSIVE path_cmp_less(_, _)
path_cmp_less(p, q) ==
    IF q = <<>> THEN FALSE
    ELSE IF p = <<>> THEN TRUE
    ELSE IF Head(p) # Head(q) THEN str_cmp_less(Head(p), Head(q))
    ELSE path_cmp_less(Tail(p), Tail(q))

\* normalize_relative_path: the components below the root joined by "/".
RECURSIVE normalize_relative_path(_)
normalize_relative_path(p) ==
    IF Len(p) = 1 THEN p[1]
    ELSE p[1] \o <<"/">> \o normalize_relative_path(Tail(p))

RECURSIVE SetToSeq(_)
SetToSeq(S) ==
    IF S = {} THEN <<>>
    ELSE LET x == CHOOSE y \in S : TRUE IN <<x>> \o SetToSeq(S \ {x})

FileEntry(p) == [path |-> p, relative_path |-> normalize_relative_path(p)]

\* --------------------------------------------------------------- grep records
\* to_grep_match: the match tagged with its file's path.
to_grep_match(path, m) ==
    [path           |-> path,
     line_number    |-> clamp_u32(m.line_number),
     context_before |-> IF m.context_before = <<>> THEN None ELSE Some(m.context_before),
     context_after  |-> IF m.context_after = <<>> THEN None ELSE Some(m.context_after),
     match_count    |-> None]

\* The count-only entry of a file (count mode).
CountEntry(path, match_count) ==
    [path           |-> path,
     line_number    |-> 0,
     context_before |-> None,
     context_after  |-> None,
     match_count    |-> Some(clamp_u32(match_count))]

\* FileRecords pushing one count entry per match of the file.
FileRecords_entry_per_match(mode, path, matches, match_count) ==
    IF mode = "Content"
    THEN [i \in 1..Len(matches) |-> to_grep_match(path, matches[i])]
    ELSE [i \in 1..match_count |-> CountEntry(path, match_count)]

\* The records one searched file adds to the result, by output mode.
FileRecords(mode, path, matches, match_count) ==
    IF mode = "Content"
    THEN [i \in 1..Len(matches) |-> to_grep_match(path, matches[i])]
    ELSE <<CountEntry(path, match_count)>>

GrepResult(matches, total_matches, files_with_matches, files_searched, limit_reached) ==
    [matches            |-> matches,
     total_matches      |-> clamp_u32(total_matches),
     files_with_matches |-> files_with_matches,
     files_searched     |-> files_searched,
     limit_reached      |-> IF limit_reached THEN Some(TRUE) ELSE None]

EmptyGrepResult(files_searched) == GrepResult(<<>>, 0, 0, files_searched, FALSE)

\* grep_sync: context is the requested one in content mode and 0 otherwise.
grep_context(r) == IF r.mode = "Content" THEN r.context ELSE 0

\* ------------------------------------------------------------ type filter
\* A string is a sequence of one-character strings.  The upper-case letters
\* of the model's strings and their lower-case forms.
LowerOf(ch) ==
    CASE ch = "A" -> "a" [] ch = "B" -> "b" [] ch = "D" -> "d" [] ch = "P" -> "p" [] ch = "Y" -> "y"
      [] OTHER -> ch

\* str::to_lowercase / eq_ignore_ascii_case on ASCII strings.
to_lowercase(s) == [i \in 1..Len(s) |-> LowerOf(s[i])]

RECURSIVE trim_start_matches(_, _)
trim_start_matches(s, ch) ==
    IF s # <<>> /\ Head(s) = ch THEN trim_start_matches(Tail(s), ch) ELSE s

RECURSIVE trim_end(_)
trim_end(s) ==
    IF s # <<>> /\ s[Len(s)] = " " THEN trim_end(SubSeq(s, 1, Len(s) - 1)) ELSE s

\* str::trim on strings whose only white space is the blank.
trim(s) == trim_end(trim_start_matches(s, " "))

\* The lookup table of resolve_type_filter; an unknown shorthand is its own
\* single extension.
TypeFilter(normalized) ==
    CASE normalized \in {<<"j", "s">>, <<"j", "a", "v", "a", "s", "c", "r", "i", "p", "t">>} ->
            [extensions |-> {<<"j", "s">>, <<"j", "s", "x">>, <<"m", "j", "s">>, <<"c", "j", "s">>}, names |-> {}]
          [] normalized \in {<<"t", "s">>, <<"t", "y", "p", "e", "s", "c", "r", "i", "p", "t">>} ->
            [extensions |-> {<<"t", "s">>, <<"t", "s", "x">>, <<"m", "t", "s">>, <<"c", "t", "s">>}, names |-> {}]
          [] normalized \in {<<"j", "s", "o", "n">>} ->
            [extensions |-> {<<"j", "s", "o", "n">>, <<"j", "s", "o", "n", "c">>, <<"j", "s", "o", "n", "5">>}, names |-> {}]
          [] normalized \in {<<"y", "a", "m", "l">>, <<"y", "m", "l">>} ->
            [extensions |-> {<<"y", "a", "m", "l">>, <<"y", "m", "l">>}, names |-> {}]
          [] normalized \in {<<"t", "o", "m", "l">>} ->
            [extensions |-> {<<"t", "o", "m", "l">>}, names |-> {}]
          [] normalized \in {<<"m", "d">>, <<"m", "a", "r", "k", "d", "o", "w", "n">>} ->
            [extensions |-> {<<"m", "d">>, <<"m", "a", "r", "k", "d", "o", "w", "n">>, <<"m", "d", "x">>}, names |-> {}]
          [] normalized \in {<<"p", "y">>, <<"p", "y", "t", "h", "o", "n">>} ->
            [extensions |-> {<<"p", "y">>, <<"p", "y", "i">>}, names |-> {}]
          [] normalized \in {<<"r", "s">>, <<"r", "u", "s", "t">>} ->
            [extensions |-> {<<"r", "s">>}, names |-> {}]
          [] normalized \in {<<"g", "o">>} ->
            [extensions |-> {<<"g", "o">>}, names |-> {}]
          [] normalized \in {<<"j", "a", "v", "a">>} ->
            [extensions |-> {<<"j", "a", "v", "a">>}, names |-> {}]
          [] normalized \in {<<"k", "t">>, <<"k", "o", "t", "l", "i", "n">>} ->
            [extensions |-> {<<"k", "t">>, <<"k", "t", "s">>}, names |-> {}]
          [] normalized \in {<<"c">>} ->
            [extensions |-> {<<"c">>, <<"h">>}, names |-> {}]
          [] normalized \in {<<"c", "p", "p">>, <<"c", "x", "x">>} ->
            [extensions |-> {<<"c", "p", "p">>, <<"c", "c">>, <<"c", "x", "x">>, <<"h", "p", "p">>, <<"h", "x", "x">>, <<"h", "h">>}, names |-> {}]
          [] normalized \in {<<"c", "s">>, <<"c", "s", "h", "a", "r", "p">>} ->
            [extensions |-> {<<"c", "s">>, <<"c", "s", "x">>}, names |-> {}]
          [] normalized \in {<<"p", "h", "p">>} ->
            [extensions |-> {<<"p", "h", "p">>, <<"p", "h", "t", "m", "l">>}, names |-> {}]
          [] normalized \in {<<"r", "b">>, <<"r", "u", "b", "y">>} ->
            [extensions |-> {<<"r", "b">>, <<"r", "a", "k", "e">>, <<"g", "e", "m", "s", "p", "e", "c">>}, names |-> {}]
          [] normalized \in {<<"s", "h">>, <<"b", "a", "s", "h">>} ->
            [extensions |-> {<<"s", "h">>, <<"b", "a", "s", "h">>, <<"z", "s", "h">>}, names |-> {}]
          [] normalized \in {<<"z", "s", "h">>} ->
            [extensions |-> {<<"z", "s", "h">>}, names |-> {}]
          [] normalized \in {<<"f", "i", "s", "h">>} ->
            [extensions |-> {<<"f", "i", "s", "h">>}, names |-> {}]
          [] normalized \in {<<"h", "t", "m", "l">>} ->
            [extensions |-> {<<"h", "t", "m", "l">>, <<"h", "t", "m">>}, names |-> {}]
          [] normalized \in {<<"c", "s", "s">>} ->
            [extensions |-> {<<"c", "s", "s">>}, names |-> {}]
          [] normalized \in {<<"s", "c", "s", "s">>} ->
            [extensions |-> {<<"s", "c", "s", "s">>}, names |-> {}]
          [] normalized \in {<<"s", "a", "s", "s">>} ->
            [extensions |-> {<<"s", "a", "s", "s">>}, names |-> {}]
          [] normalized \in {<<"l", "e", "s", "s">>} ->
            [extensions |-> {<<"l", "e", "s", "s">>}, names |-> {}]
          [] normalized \in {<<"x", "m", "l">>} ->
            [extensions |-> {<<"x", "m", "l">>}, names |-> {}]
          [] normalized \in {<<"d", "o", "c", "k", "e", "r">>, <<"d", "o", "c", "k", "e", "r", "f", "i", "l", "e">>} ->
            [extensions |-> {}, names |-> {<<"d", "o", "c", "k", "e", "r", "f", "i", "l", "e">>}]
          [] normalized \in {<<"m", "a", "k", "e">>, <<"m", "a", "k", "e", "f", "i", "l", "e">>} ->
            [extensions |-> {}, names |-> {<<"m", "a", "k", "e", "f", "i", "l", "e">>}]
          [] OTHER -> [extensions |-> {normalized}, names |-> {}]

\* resolve_type_filter: None for an absent or blank shorthand; else the
\* shorthand is trimmed, stripped of leading dots and lower-cased.
resolve_type_filter(type_name) ==
    IF type_name = None \/ trim(Unwrap(type_name)) = <<>> THEN None
    ELSE Some(TypeFilter(to_lowercase(trim_start_matches(trim(Unwrap(type_name)), "."))))

\* matches_case_insensitive that compares the strings as they are.
matches_case_sensitive(value, candidates) == value \in candidates

\* matches_case_insensitive (ASCII branch; the candidates are lower-case).
matches_case_insensitive(value, candidates) ==
    \E candidate \in candidates : to_lowercase(value) = to_lowercase(candidate)

\* Path::file_name: the last component.
file_name(path) == path[Len(path)]

\* Path::extension: what follows the last dot of the file name; None without
\* a dot or when the only dot is the first character.
extension(path) ==
    LET name == file_name(path)
        dots == {i \in 1..Len(name) : name[i] = "."}
    IN IF dots = {} THEN None
       ELSE LET last == CHOOSE i \in dots : \A j \in dots : j <= i
            IN IF last = 1 THEN None ELSE Some(SubSeq(name, last + 1, Len(name)))

matches_type_filter(path, filter) ==
    LET base_name == file_name(path)
        ext == IF extension(path) = None THEN <<>> ELSE Unwrap(extension(path))
    IN IF matches_case_insensitive(base_name, filter.names) THEN TRUE
       ELSE IF ext = <<>> THEN FALSE
       ELSE matches_case_insensitive(ext, filter.extensions)

\* `if let Some(filter) = type_filter && !matches_type_filter(..)`: a path
\* passes when there is no filter or the filter matches.
passes_type_filter(path, type_filter) ==
    type_filter = None \/ matches_type_filter(path, Unwrap(type_filter))

\* The globs of the requests: none, and one the glob compiler rejects (an
\* unclosed character class).
Globs == {None, Some(<<"[">>)}

\* build_glob_pattern that leaves every glob as it is written.
build_glob_pattern_unprefixed(glob) ==
    [i \in 1..Len(glob) |-> IF glob[i] = "\\" THEN "/" ELSE glob[i]]

\* build_glob_pattern: backslashes become "/"; a glob with no "/" gets the
\* prefix "**/".  (A glob that starts with "**/" contains a "/".)
build_glob_pattern(glob) ==
    LET normalized == [i \in 1..Len(glob) |-> IF glob[i] = "\\" THEN "/" ELSE glob[i]]
    IN IF \E i \in 1..Len(normalized) : normalized[i] = "/"
       THEN normalized
       ELSE <<"*", "*", "/">> \o normalized

\* Glob::new fails on a character class that is never closed.
glob_new_ok(pattern) ==
    \A i \in 1..Len(pattern) :
        pattern[i] = "[" => \E j \in (i + 1)..Len(pattern) : pattern[j] = "]"

\* compile_glob: no glob set for an absent or blank glob, "Invalid glob
\* pattern: ..." for one that Glob::new rejects, else the set of the one
\* pattern.
compile_glob(glob) ==
    IF glob = None \/ trim(Unwrap(glob)) = <<>> THEN [ok |-> TRUE, set |-> None]
    ELSE IF ~glob_new_ok(build_glob_pattern(trim(Unwrap(glob))))
         THEN [ok |-> FALSE, err |-> "Invalid glob pattern"]
         ELSE [ok |-> TRUE, set |-> Some(build_glob_pattern(trim(Unwrap(glob))))]

\* The globset matcher with its default options (literal_separator off), on
\* patterns whose "**" is the leading "**/" only: "**/" matches nothing, a
\* leading "/", or anything up to a "/"; "*" matches any characters, "/"
\* included; "?" matches one character; any other character matches itself.
\* The match is anchored at both ends.
RECURSIVE glob_tokens_match(_, _)
glob_tokens_match(pat, s) ==
    IF pat = <<>> THEN s = <<>>
    ELSE IF Head(pat) = "*"
         THEN \E k \in 0..Len(s) : glob_tokens_match(Tail(pat), SubSeq(s, k + 1, Len(s)))
    ELSE IF s = <<>> THEN FALSE
    ELSE IF Head(pat) = "?" THEN glob_tokens_match(Tail(pat), Tail(s))
    ELSE Head(pat) = Head(s) /\ glob_tokens_match(Tail(pat), Tail(s))

is_match(pattern, s) ==
    IF Len(pattern) >= 3 /\ SubSeq(pattern, 1, 3) = <<"*", "*", "/">>
    THEN LET rest == SubSeq(pattern, 4, Len(pattern))
         IN \/ glob_tokens_match(rest, s)
            \/ \E k \in 1..Len(s) :
                   s[k] = "/" /\ glob_tokens_match(rest, SubSeq(s, k + 1, Len(s)))
    ELSE glob_tokens_match(pattern, s)

\* `if let Some(glob_set) = glob_set { ... if !glob_set.is_match(relative) }`:
\* a path passes when there is no glob set or the set matches the path
\* relative to the root.
passes_glob(path, glob_set) ==
    glob_set = None \/ is_match(Unwrap(glob_set), normalize_relative_path(path))

\* collect_files that keeps a file when it passes the glob or the type filter.
collect_files_either(t, glob_set, type_filter) ==
    LET kept == {q \in DOMAIN t : \/ passes_glob(q, glob_set)
                                  \/ passes_type_filter(q, type_filter)}
        walk == SortSeq(SetToSeq(kept), path_cmp_less)
    IN [i \in 1..Len(walk) |-> FileEntry(walk[i])]

\* collect_files: the regular files the walk yields, in the walker's order
\* (siblings sorted by file path, directories descended in that order, which
\* lists the files in Path order), less those the glob set does not match
\* and those the type filter does not match.
collect_files(t, glob_set, type_filter) ==
    LET kept == {q \in DOMAIN t : /\ passes_glob(q, glob_set)
                                  /\ passes_type_filter(q, type_filter)}
        walk == SortSeq(SetToSeq(kept), path_cmp_less)
    IN [i \in 1..Len(walk) |-> FileEntry(walk[i])]

\* grep_sync: glob_set = compile_glob(glob)?, past the `?`.
glob_set_of(r) == IF compile_glob(r.glob).ok THEN compile_glob(r.glob).set ELSE None

\* grep_sync that looks at the root, the pattern and the glob only after
\* the search.
grep_config_unchecked(r) == [ok |-> TRUE]

\* The head of grep_sync, in its order: the metadata of the root, the
\* matcher, the glob.  Each failure is returned with `?`.
grep_config(r) ==
    IF r.root = "missing" THEN [ok |-> FALSE, err |-> "Path not found"]
    ELSE IF ~build_matcher(r.pattern).ok
         THEN [ok |-> FALSE, err |-> build_matcher(r.pattern).err]
    ELSE IF ~compile_glob(r.glob).ok
         THEN [ok |-> FALSE, err |-> compile_glob(r.glob).err]
    ELSE [ok |-> TRUE]

\* ----------------------------------------------------------- parallel search
\* The closure run_parallel_search maps over the entries: None when the file
\* cannot be opened or the search fails, else the file's own result.
parallel_task(entry, file, context_n, mode) ==
    IF file.status # "ok" THEN None
    ELSE LET search == run_search_reader(file.content, context_n, mode, None, 0)
         IN Some([relative_path |-> entry.relative_path,
                  matches       |-> search.matches,
                  match_count   |-> search.match_count])

ResultPathLess(a, b) == str_cmp_less(a.relative_path, b.relative_path)

\* run_parallel_search without its sort.
sort_results_skipped(rs) == rs

\* results.sort_by(|a, b| a.relative_path.cmp(&b.relative_path))
sort_results(rs) == SortSeq(rs, ResultPathLess)

\* grep_sync's merge loop over the sorted results (files with no match are
\* passed over); acc is [matches, total_matches, files_with_matches].
RECURSIVE parallel_merge(_, _, _)
parallel_merge(rs, mode, acc) ==
    IF rs = <<>> THEN acc
    ELSE LET r == Head(rs) IN
         IF r.match_count = 0 THEN parallel_merge(Tail(rs), mode, acc)
         ELSE parallel_merge(Tail(rs), mode,
                [matches |-> acc.matches
                               \o FileRecords(mode, r.relative_path, r.matches, r.match_count),
                 total_matches |-> acc.total_matches + r.match_count,
                 files_with_matches |-> acc.files_with_matches + 1])

\* --------------------------------------------------------- sequential search
SeqStart ==
    [i |-> 1, matches |-> <<>>, total_matches |-> 0, collected |-> 0,
     files_with_matches |-> 0, files_searched |-> 0, limit_reached |-> FALSE]

\* seq_iteration with the file offset taken from the retained count instead
\* of the matches seen.
seq_iteration_offset_from_collected(st, entry, file, context_n, mode, max_count, offset) ==
    LET file_offset == saturating_sub(offset, st.collected)
        remaining == IF IsSome(max_count)
                     THEN Some(saturating_sub(Unwrap(max_count), st.collected))
                     ELSE None
    IN
    IF remaining = Some(0) THEN [st EXCEPT !.limit_reached = TRUE]
    ELSE IF file.status = "open_fail" THEN [st EXCEPT !.i = @ + 1]
    ELSE
        LET opened == [st EXCEPT !.i = @ + 1, !.files_searched = @ + 1] IN
        IF file.status = "read_fail" THEN opened
        ELSE
            LET search == run_search_reader(file.content, context_n, mode,
                                            remaining, file_offset)
            IN
            IF search.match_count = 0 THEN opened
            ELSE
                LET collected == st.collected + search.collected IN
                [opened EXCEPT
                    !.files_with_matches = @ + 1,
                    !.total_matches = @ + search.match_count,
                    !.collected = collected,
                    !.matches = @ \o FileRecords(mode, entry.relative_path,
                                                 search.matches, search.match_count),
                    !.limit_reached =
                        \/ search.limit_reached
                        \/ (IsSome(max_count) /\ collected >= Unwrap(max_count))]

\* seq_iteration without the test of the remaining budget at the start of a
\* file.
seq_iteration_without_budget_test(st, entry, file, context_n, mode, max_count, offset) ==
    LET file_offset == saturating_sub(offset, st.total_matches)
        remaining == IF IsSome(max_count)
                     THEN Some(saturating_sub(Unwrap(max_count), st.collected))
                     ELSE None
    IN
    IF file.status = "open_fail" THEN [st EXCEPT !.i = @ + 1]
    ELSE
        LET opened == [st EXCEPT !.i = @ + 1, !.files_searched = @ + 1] IN
        IF file.status = "read_fail" THEN opened
        ELSE
            LET search == run_search_reader(file.content, context_n, mode,
                                            remaining, file_offset)
            IN
            IF search.match_count = 0 THEN opened
            ELSE
                LET collected == st.collected + search.collected IN
                [opened EXCEPT
                    !.files_with_matches = @ + 1,
                    !.total_matches = @ + search.match_count,
                    !.collected = collected,
                    !.matches = @ \o FileRecords(mode, entry.relative_path,
                                                 search.matches, search.match_count),
                    !.limit_reached =
                        \/ search.limit_reached
                        \/ (IsSome(max_count) /\ collected >= Unwrap(max_count))]

\* One iteration of run_sequential_search's loop over entry st.i, entered
\* when seq_loop_continues holds.
seq_iteration(st, entry, file, context_n, mode, max_count, offset) ==
    LET file_offset == saturating_sub(offset, st.total_matches)
        remaining == IF IsSome(max_count)
                     THEN Some(saturating_sub(Unwrap(max_count), st.collected))
                     ELSE None
    IN
    IF remaining = Some(0) THEN [st EXCEPT !.limit_reached = TRUE]
    ELSE IF file.status = "open_fail" THEN [st EXCEPT !.i = @ + 1]
    ELSE
        LET opened == [st EXCEPT !.i = @ + 1, !.files_searched = @ + 1] IN
        IF file.status = "read_fail" THEN opened
        ELSE
            LET search == run_search_reader(file.content, context_n, mode,
                                            remaining, file_offset)
            IN
            IF search.match_count = 0 THEN opened
            ELSE
                LET collected == st.collected + search.collected IN
                [opened EXCEPT
                    !.files_with_matches = @ + 1,
                    !.total_matches = @ + search.match_count,
                    !.collected = collected,
                    !.matches = @ \o FileRecords(mode, entry.relative_path,
                                                 search.matches, search.match_count),
                    !.limit_reached =
                        \/ search.limit_reached
                        \/ (IsSome(max_count) /\ collected >= Unwrap(max_count))]

\* The loop test of run_sequential_search: another entry is left and
\* `if limit_reached { break; }` does not leave the loop.
seq_loop_continues(st, es) == ~st.limit_reached /\ st.i <= Len(es)

\* run_sequential_search from state st to the end of its loop.
RECURSIVE run_sequential_search(_, _, _, _, _, _, _)
run_sequential_search(st, es, t, context_n, mode, max_count, offset) ==
    IF ~seq_loop_continues(st, es) THEN st
    ELSE run_sequential_search(
            seq_iteration(st, es[st.i], t[es[st.i].path], context_n, mode,
                          max_count, offset),
            es, t, context_n, mode, max_count, offset)

\* allow_parallel that forgets the offset.
allow_parallel_ignores_offset(max_count, offset) == max_count = None

\* allow_parallel of grep_sync.
allow_parallel(max_count, offset) == max_count = None /\ offset = 0

\* --------------------------------------------- one collector pass, stepwise
NoCollector == MatchCollector_new(None, 0, FALSE)

SearchOptionsSet ==
    [pattern : Patterns, max_count : Options(MaxMax), offset : Options(MaxOffset),
     context : 0..MaxCtx, mode : Modes]

GrepIdle ==
    /\ tree = <<>> /\ req = <<>> /\ gpc = "off" /\ strategy = "none" /\ entries = <<>>
    /\ pending = {} /\ results = <<>> /\ seq = <<>>
    /\ report = <<>> /\ callbacks = <<>> /\ reference = <<>>

SearchIdle ==
    /\ stream = <<>> /\ ctx = 0 /\ collector = NoCollector /\ pos = 1
    /\ scan = "off" /\ last_signal = "none" /\ notified = 0 /\ result = <<>>
    /\ opts = <<>>

PageIdle == page = <<>>

WorkIdle == pool = "uninit" /\ queue = <<>> /\ tasks = <<>>

TruncIdle == trunc = <<>>

AuxIdle == filt = <<>> /\ fuzzy = <<>> /\ once = <<>>

Init ==
    /\ stream \in Streams(MaxLines)
    /\ opts \in SearchOptionsSet
    /\ ctx = 0 /\ collector = NoCollector /\ pos = 1
    /\ scan = "idle" /\ last_signal = "none" /\ notified = 0 /\ result = <<>>
    /\ PageIdle
    /\ GrepIdle
    /\ WorkIdle
    /\ TruncIdle
    /\ AuxIdle

\* search_sync down to run_search_reader: build the searcher and the collector.
StartSearch ==
    /\ scan = "idle" /\ build_matcher(opts.pattern).ok
    /\ ctx' = searcher_context(opts.mode, opts.context)
    /\ collector' = MatchCollector_new(opts.max_count, OffsetOf(opts.offset),
                                       opts.mode = "Content")
    /\ scan' = "running"
    /\ UNCHANGED <<stream, pos, last_signal, notified, result, opts, page>>
    /\ UNCHANGED grepVars /\ UNCHANGED workVars /\ UNCHANGED trunc /\ UNCHANGED auxVars

\* search_sync, build_matcher fails: the empty result with the error.
MatcherError ==
    /\ scan = "idle" /\ ~build_matcher(opts.pattern).ok
    /\ result' = <<empty_search_result(Some(build_matcher(opts.pattern).err))>>
    /\ scan' = "failed"
    /\ UNCHANGED <<stream, ctx, collector, pos, last_signal, notified, opts, page>>
    /\ UNCHANGED grepVars /\ UNCHANGED workVars /\ UNCHANGED trunc /\ UNCHANGED auxVars

\* The searcher reports the match on line pos.
MatchNotification ==
    /\ scan = "running" /\ pos <= Len(stream)
    /\ EventKind(stream, ctx, pos) = "Match"
    /\ LET r == matched(collector, pos) IN
        /\ collector' = r.c
        /\ last_signal' = IF r.go THEN "continue" ELSE "stop"
        /\ scan' = IF r.go THEN "running" ELSE "stopped"
    /\ notified' = notified + 1
    /\ pos' = pos + 1
    /\ UNCHANGED <<stream, ctx, result, opts, page>>
    /\ UNCHANGED grepVars /\ UNCHANGED workVars /\ UNCHANGED trunc /\ UNCHANGED auxVars

\* The searcher reports line pos as before- or after-context.
ContextNotification ==
    /\ scan = "running" /\ pos <= Len(stream)
    /\ EventKind(stream, ctx, pos) \in {"Before", "After"}
    /\ collector' = context(collector, EventKind(stream, ctx, pos), pos)
    /\ pos' = pos + 1
    /\ UNCHANGED <<stream, ctx, scan, last_signal, notified, result, opts, page>>
    /\ UNCHANGED grepVars /\ UNCHANGED workVars /\ UNCHANGED trunc /\ UNCHANGED auxVars

\* Line pos neither matches nor lies in a context window: nothing is reported.
UnreportedLine ==
    /\ scan = "running" /\ pos <= Len(stream)
    /\ EventKind(stream, ctx, pos) = "Skip"
    /\ pos' = pos + 1
    /\ UNCHANGED <<stream, ctx, collector, scan, last_signal, notified, result, opts, page>>
    /\ UNCHANGED grepVars /\ UNCHANGED workVars /\ UNCHANGED trunc /\ UNCHANGED auxVars

\* The reader is exhausted.
EndOfStream ==
    /\ scan = "running" /\ pos > Len(stream)
    /\ scan' = "eof"
    /\ UNCHANGED <<stream, ctx, collector, pos, last_signal, notified, result, opts, page>>
    /\ UNCHANGED grepVars /\ UNCHANGED workVars /\ UNCHANGED trunc /\ UNCHANGED auxVars

\* search_reader has returned: run_search_reader packs the collector and
\* search_sync converts it to the public SearchResult.
ReturnSearch ==
    /\ scan \in {"eof", "stopped"}
    /\ result' = <<SearchResult(SearchResultInternal(collector))>>
    /\ scan' = "returned"
    /\ UNCHANGED <<stream, ctx, collector, pos, last_signal, notified, opts, page>>
    /\ UNCHANGED grepVars /\ UNCHANGED workVars /\ UNCHANGED trunc /\ UNCHANGED auxVars

Next ==
    \/ StartSearch
    \/ MatcherError
    \/ MatchNotification
    \/ ContextNotification
    \/ UnreportedLine
    \/ EndOfStream
    \/ ReturnSearch

Spec == Init /\ [][Next]_vars

\* The stepwise pass and search_sync computed in one go agree.
StepwiseAgrees ==
    scan \in {"returned", "failed"} =>
        result[1] = search_sync(opts.pattern, stream, opts.context, opts.mode,
                                opts.max_count, opts.offset)

\* ------------------------------------------- a pagination session of search()
\* A caller fetches the first k matches, then the rest, then everything, over
\* the same content and context, in content mode.
InitPaging ==
    /\ page \in [content : Streams(MaxLines), k : 0..MaxMax, context : 0..MaxCtx,
                 phase : {"start"}, first : {<<>>}, rest : {<<>>}, full : {<<>>}]
    /\ SearchIdle
    /\ GrepIdle
    /\ WorkIdle
    /\ TruncIdle
    /\ AuxIdle

\* search(content, {maxCount: k, offset: 0})
FirstPage ==
    /\ page # <<>> /\ page.phase = "start"
    /\ page' = [page EXCEPT
                  !.first = <<search_sync("x", page.content, page.context, "Content",
                                               Some(page.k), Some(0))>>,
                  !.phase = "first"]
    /\ UNCHANGED searchVars /\ UNCHANGED grepVars /\ UNCHANGED workVars /\ UNCHANGED trunc /\ UNCHANGED auxVars

\* search(content, {offset: k})
RestPage ==
    /\ page # <<>> /\ page.phase = "first"
    /\ page' = [page EXCEPT
                  !.rest = <<search_sync("x", page.content, page.context, "Content",
                                              None, Some(page.k))>>,
                  !.phase = "rest"]
    /\ UNCHANGED searchVars /\ UNCHANGED grepVars /\ UNCHANGED workVars /\ UNCHANGED trunc /\ UNCHANGED auxVars

\* search(content, {})
FullSearch ==
    /\ page # <<>> /\ page.phase = "rest"
    /\ page' = [page EXCEPT
                  !.full = <<search_sync("x", page.content, page.context, "Content",
                                              None, None)>>,
                  !.phase = "full"]
    /\ UNCHANGED searchVars /\ UNCHANGED grepVars /\ UNCHANGED workVars /\ UNCHANGED trunc /\ UNCHANGED auxVars

NextPaging == FirstPage \/ RestPage \/ FullSearch

SpecPaging == InitPaging /\ [][NextPaging]_vars

\* ------------------------------------------------------- grep over a root
\* The candidate files below the root.  Of a file only the lines inside the
\* byte cap are read; a file whose open fails or whose read fails has none.
PathUniverse ==
    { << <<"a", "-", "b">> >>,
      << <<"a">>, <<"b">> >>,
      << <<"b">> >> }

\* The roots of the requests that may carry max_count and offset.
PagedPaths ==
    { << <<"a", "-", "b">> >>,
      << <<"a">>, <<"b">> >> }

FileStates ==
    [status : {"ok"}, content : Streams(MaxFileLines)]
        \cup [status : {"open_fail", "read_fail"}, content : {<<>>}]

Trees(paths) == UNION {[S -> FileStates] : S \in SUBSET paths}

\* The output mode with the context it is asked with: content mode with no
\* context or the largest one, count mode with the largest one.
ModeAndContext ==
    {[mode |-> "Content", context |-> 0],
     [mode |-> "Content", context |-> MaxCtx],
     [mode |-> "Count", context |-> MaxCtx]}

\* The root of a request: a directory, a regular file, or a path that does
\* not exist; its pattern and its glob.
RequestHeads == [root : {"dir", "file", "missing"}, pattern : Patterns, glob : Globs]

GrepRequests ==
    {[root |-> h.root, pattern |-> h.pattern, glob |-> h.glob,
      type_filter |-> None,
      max_count |-> m, offset |-> o, context |-> mc.context, mode |-> mc.mode] :
        h \in RequestHeads, m \in Options(MaxMax), o \in Options(MaxOffset),
        mc \in ModeAndContext}

GrepStartState ==
    /\ gpc = "start" /\ strategy = "none" /\ entries = <<>>
    /\ pending = {} /\ results = <<>> /\ seq = <<>>
    /\ report = <<>> /\ callbacks = <<>> /\ reference = <<>>
    /\ SearchIdle
    /\ PageIdle
    /\ WorkIdle
    /\ TruncIdle
    /\ AuxIdle

\* Any request, on a root with up to two candidate files.  The requests
\* that grep_config rejects come without max_count and offset.
InitGrep ==
    /\ tree \in Trees(PagedPaths)
    /\ req \in GrepRequests
    /\ req.root = "file" => Cardinality(DOMAIN tree) = 1
    /\ req.root = "missing" => DOMAIN tree = {}
    /\ ~grep_config(req).ok => (req.max_count = None /\ req.offset = None)
    /\ GrepStartState

\* Requests on a directory with neither max_count nor a non-zero offset.
InitPar ==
    /\ tree \in Trees(PathUniverse)
    /\ req \in {r \in GrepRequests :
                    /\ r.root = "dir" /\ r.pattern = "x" /\ r.glob = None
                    /\ r.max_count = None /\ OffsetOf(r.offset) = 0}
    /\ GrepStartState

\* grep_sync returns the error of its head: nothing was walked or searched.
ConfigError ==
    /\ gpc = "start" /\ ~grep_config(req).ok
    /\ gpc' = "error"
    /\ UNCHANGED <<tree, req, strategy, entries, pending, results, seq, report,
                   callbacks, reference>>
    /\ UNCHANGED searchVars /\ UNCHANGED page /\ UNCHANGED workVars /\ UNCHANGED trunc /\ UNCHANGED auxVars

\* grep_sync, root is a regular file: searched directly with the request's
\* max_count and offset.
SingleFileRoot ==
    /\ gpc = "start" /\ grep_config(req).ok /\ req.root = "file"
    /\ LET p == CHOOSE q \in DOMAIN tree : TRUE
           file == tree[p]
           search == run_search_reader(file.content, grep_context(req), req.mode,
                                       req.max_count, OffsetOf(req.offset))
           limit_reached ==
               \/ search.limit_reached
               \/ (IsSome(req.max_count) /\ search.collected >= Unwrap(req.max_count))
       IN
       /\ strategy' = "single"
       /\ IF /\ passes_type_filter(p, resolve_type_filter(req.type_filter))
             /\ file.status = "read_fail"
          THEN /\ gpc' = "error"
               /\ report' = report
          ELSE /\ gpc' = "done"
               /\ report' =
                    IF ~passes_type_filter(p, resolve_type_filter(req.type_filter))
                    THEN <<EmptyGrepResult(0)>>
                    ELSE IF file.status = "open_fail" THEN <<EmptyGrepResult(0)>>
                    ELSE IF search.match_count = 0 THEN <<EmptyGrepResult(1)>>
                    ELSE <<GrepResult(
                             FileRecords(req.mode, normalize_relative_path(p),
                                         search.matches, search.match_count),
                             search.match_count, 1, 1, limit_reached)>>
    /\ UNCHANGED <<tree, req, entries, pending, results, seq, callbacks, reference>>
    /\ UNCHANGED searchVars /\ UNCHANGED page /\ UNCHANGED workVars /\ UNCHANGED trunc /\ UNCHANGED auxVars

\* grep_sync, root is a directory: collect the candidates; none gives the
\* empty result.
CollectFiles ==
    /\ gpc = "start" /\ grep_config(req).ok /\ req.root = "dir"
    /\ entries' = collect_files(tree, glob_set_of(req), resolve_type_filter(req.type_filter))
    /\ IF collect_files(tree, glob_set_of(req), resolve_type_filter(req.type_filter)) = <<>>
       THEN /\ gpc' = "done" /\ strategy' = "empty"
            /\ report' = <<EmptyGrepResult(0)>>
       ELSE /\ gpc' = "dispatch" /\ strategy' = strategy
            /\ report' = report
    /\ UNCHANGED <<tree, req, pending, results, seq, callbacks, reference>>
    /\ UNCHANGED searchVars /\ UNCHANGED page /\ UNCHANGED workVars /\ UNCHANGED trunc /\ UNCHANGED auxVars

\* grep_sync chooses the strategy.
Dispatch ==
    /\ gpc = "dispatch"
    /\ IF allow_parallel(req.max_count, OffsetOf(req.offset))
       THEN /\ strategy' = "parallel" /\ gpc' = "par"
            /\ pending' = 1..Len(entries)
            /\ seq' = seq
       ELSE /\ strategy' = "sequential" /\ gpc' = "seq"
            /\ pending' = pending
            /\ seq' = SeqStart
    /\ UNCHANGED <<tree, req, entries, results, report, callbacks, reference>>
    /\ UNCHANGED searchVars /\ UNCHANGED page /\ UNCHANGED workVars /\ UNCHANGED trunc /\ UNCHANGED auxVars

\* One pool task of run_parallel_search finishes.  Tasks finish in any order,
\* and no order of the gathered results is assumed before the sort.
WorkerTask(i) ==
    /\ gpc = "par" /\ i \in pending
    /\ results' = results \o parallel_task(entries[i], tree[entries[i].path],
                                            grep_context(req), req.mode)
    /\ pending' = pending \ {i}
    /\ UNCHANGED <<tree, req, gpc, strategy, entries, seq, report, callbacks, reference>>
    /\ UNCHANGED searchVars /\ UNCHANGED page /\ UNCHANGED workVars /\ UNCHANGED trunc /\ UNCHANGED auxVars

\* run_parallel_search returns: every task is done, and the vector of
\* results is sorted in place.
ParallelCollect ==
    /\ gpc = "par" /\ pending = {}
    /\ results' = sort_results(results)
    /\ gpc' = "merge"
    /\ UNCHANGED <<tree, req, strategy, entries, pending, seq, report, callbacks,
                   reference>>
    /\ UNCHANGED searchVars /\ UNCHANGED page /\ UNCHANGED workVars /\ UNCHANGED trunc /\ UNCHANGED auxVars

\* grep_sync merges the sorted results, calling on_match per record.
ParallelMerge ==
    /\ gpc = "merge"
    /\ LET acc == parallel_merge(results, req.mode,
                     [matches |-> <<>>, total_matches |-> 0, files_with_matches |-> 0])
       IN /\ callbacks' = acc.matches
          /\ report' = <<GrepResult(acc.matches, acc.total_matches,
                                    acc.files_with_matches,
                                    clamp_u32(Len(results)), FALSE)>>
    /\ gpc' = "done"
    /\ UNCHANGED <<tree, req, strategy, entries, pending, results, seq,
                   reference>>
    /\ UNCHANGED searchVars /\ UNCHANGED page /\ UNCHANGED workVars /\ UNCHANGED trunc /\ UNCHANGED auxVars

\* One iteration of run_sequential_search.
SeqIteration ==
    /\ gpc = "seq"
    /\ seq_loop_continues(seq, entries)
    /\ seq' = seq_iteration(seq, entries[seq.i], tree[entries[seq.i].path],
                            grep_context(req), req.mode,
                            req.max_count, OffsetOf(req.offset))
    /\ UNCHANGED <<tree, req, gpc, strategy, entries, pending, results,
                   report, callbacks, reference>>
    /\ UNCHANGED searchVars /\ UNCHANGED page /\ UNCHANGED workVars /\ UNCHANGED trunc /\ UNCHANGED auxVars

\* run_sequential_search returns; grep_sync calls on_match per record and
\* returns the result.
SeqReturn ==
    /\ gpc = "seq"
    /\ ~seq_loop_continues(seq, entries)
    /\ callbacks' = seq.matches
    /\ report' = <<GrepResult(seq.matches, seq.total_matches, seq.files_with_matches,
                              seq.files_searched, seq.limit_reached)>>
    /\ gpc' = "done"
    /\ UNCHANGED <<tree, req, strategy, entries, pending, results, seq,
                   reference>>
    /\ UNCHANGED searchVars /\ UNCHANGED page /\ UNCHANGED workVars /\ UNCHANGED trunc /\ UNCHANGED auxVars

\* After a parallel grep, the same entries are run through
\* run_sequential_search with no offset and no max_count, as a reference.
ReferenceRun ==
    /\ gpc = "done" /\ strategy = "parallel"
    /\ LET st == run_sequential_search(SeqStart, entries, tree, grep_context(req),
                                       req.mode, None, 0)
       IN reference' = <<GrepResult(st.matches, st.total_matches, st.files_with_matches,
                                    st.files_searched, st.limit_reached)>>
    /\ gpc' = "refdone"
    /\ UNCHANGED <<tree, req, strategy, entries, pending, results, seq, report,
                   callbacks>>
    /\ UNCHANGED searchVars /\ UNCHANGED page /\ UNCHANGED workVars /\ UNCHANGED trunc /\ UNCHANGED auxVars

NextGrep ==
    \/ ConfigError
    \/ SingleFileRoot
    \/ CollectFiles
    \/ Dispatch
    \/ \E i \in 1..Len(entries) : WorkerTask(i)
    \/ ParallelCollect
    \/ ParallelMerge
    \/ SeqIteration
    \/ SeqReturn

SpecGrep == InitGrep /\ [][NextGrep]_vars

NextPar ==
    \/ CollectFiles
    \/ Dispatch
    \/ \E i \in 1..Len(entries) : WorkerTask(i)
    \/ ParallelCollect
    \/ ParallelMerge
    \/ ReferenceRun

SpecPar == InitPar /\ [][NextPar]_vars

\* ------------------------------------------------- grep with both filters
\* The files below a root searched with a glob and a type filter; each has
\* one line, which matches.
DiscoverPaths ==
    { << <<"a", ".", "m", "d">> >>,
      << <<"a", ".", "p", "y">> >>,
      << <<"d", "o", "c", "s">>, <<"b", ".", "m", "d">> >>,
      << <<"d", "o", "c", "s">>, <<"b", ".", "p", "y">> >> }

DiscoverTrees ==
    UNION {[S -> [status : {"ok"}, content : {<<TRUE>>}]] : S \in SUBSET DiscoverPaths}

DiscoverGlobs == {None, Some(<<"*", ".", "m", "d">>), Some(<<"d", "o", "c", "s", "/", "*">>), Some(<<"[">>)}

DiscoverTypes == {None, Some(<<"p", "y">>), Some(<<"m", "d">>)}

DiscoverRequests ==
    [root : {"dir", "file"}, pattern : {"x"}, glob : DiscoverGlobs,
     type_filter : DiscoverTypes, max_count : {None, Some(1)}, offset : {None},
     context : {0}, mode : {"Content"}]

InitDiscover ==
    /\ tree \in DiscoverTrees
    /\ req \in DiscoverRequests
    /\ req.root = "file" => Cardinality(DOMAIN tree) = 1
    /\ GrepStartState

SpecDiscover == InitDiscover /\ [][NextGrep]_vars

\* The stepwise loop and run_sequential_search computed in one go agree.
SeqLoopAgrees ==
    gpc = "done" /\ strategy = "sequential" =>
        seq = run_sequential_search(SeqStart, entries, tree, grep_context(req), req.mode,
                                    req.max_count, OffsetOf(req.offset))

\* ------------------------------------------------------- truncate_line
\* A line is a valid UTF-8 string, a sequence of bytes of which only the
\* kind matters: "a" is an ASCII byte, "L2" and "L3" lead a character of two
\* and three bytes, "c" is a continuation byte, "." the dot of the ellipsis.
Utf8(width) ==
    CASE width = 1 -> <<"a">>
      [] width = 2 -> <<"L2", "c">>
      [] width = 3 -> <<"L3", "c", "c">>

RECURSIVE Encode(_)
Encode(widths) ==
    IF widths = <<>> THEN <<>> ELSE Utf8(Head(widths)) \o Encode(Tail(widths))

\* The lines of up to n characters.
Lines(n) == {Encode(ws) : ws \in UNION {[1..k -> 1..3] : k \in 0..n}}

\* str::is_char_boundary: the start, the end, or a byte that starts a
\* character (index is a byte offset, 0-based).
is_char_boundary(s, index) ==
    \/ index = 0
    \/ index = Len(s)
    \/ (index < Len(s) /\ s[index + 1] # "c")

\* str::floor_char_boundary: the closest character boundary not above index.
floor_char_boundary(s, index) ==
    IF index >= Len(s) THEN Len(s)
    ELSE CHOOSE i \in 0..index :
            /\ is_char_boundary(s, i)
            /\ \A j \in (i + 1)..index : ~is_char_boundary(s, j)

\* MatchCollector::truncate_line: line.len() is the length in bytes.
truncate_line(max_columns, line) ==
    IF IsSome(max_columns) /\ Len(line) > Unwrap(max_columns)
    THEN LET cut == saturating_sub(Unwrap(max_columns), 3)
             boundary == floor_char_boundary(line, cut)
         IN [line |-> SubSeq(line, 1, boundary) \o <<".", ".", ".">>,
             truncated |-> TRUE]
    ELSE [line |-> line, truncated |-> FALSE]

InitTruncate ==
    /\ trunc \in [line : Lines(MaxChars), max_columns : Options(MaxColumns),
                   kind : {"none"}, out : {<<>>}]
    /\ SearchIdle
    /\ PageIdle
    /\ GrepIdle
    /\ WorkIdle
    /\ AuxIdle

\* matched(): the match line is truncated and the flag kept in the record.
TruncateMatchLine ==
    /\ trunc # <<>> /\ trunc.kind = "none"
    /\ trunc' = [trunc EXCEPT
                   !.kind = "match",
                   !.out = <<truncate_line(trunc.max_columns, trunc.line)>>]
    /\ UNCHANGED searchVars /\ UNCHANGED page /\ UNCHANGED grepVars
    /\ UNCHANGED workVars /\ UNCHANGED auxVars

\* context(): the context line is truncated and the flag discarded.
TruncateContextLine ==
    /\ trunc # <<>> /\ trunc.kind = "none"
    /\ trunc' = [trunc EXCEPT
                   !.kind = "context",
                   !.out = <<[line |-> truncate_line(trunc.max_columns, trunc.line).line]>>]
    /\ UNCHANGED searchVars /\ UNCHANGED page /\ UNCHANGED grepVars
    /\ UNCHANGED workVars /\ UNCHANGED auxVars

NextTruncate == TruncateMatchLine \/ TruncateContextLine

SpecTruncate == InitTruncate /\ [][NextTruncate]_vars

\* ------------------------------------------------- work.rs: launch_task
\* napi::Result<T>.
Ok(v) == [ok |-> TRUE, value |-> v]
Err(reason) == [ok |-> FALSE, reason |-> reason]

\* What a work closure does when called: return Ok, return Err, or panic.
Works == {"ok", "err", "panic"}

\* The value the closure of task t returns when it returns.
work_result(work, t) == IF work = "ok" THEN Ok(t) ELSE Err("work failed")

\* The spawned closure without catch_unwind: a panic of the work leaves it.
run_job_uncaught(work, t) ==
    [result |-> work_result(work, t), unwound |-> work = "panic"]

\* The body of the spawned closure up to the send:
\* catch_unwind(AssertUnwindSafe(work)).unwrap_or_else(|_| Err("Rayon task panicked")).
\* unwound tells whether a panic leaves the closure.
run_job(work, t) ==
    [result  |-> IF work = "panic" THEN Err("Rayon task panicked")
                 ELSE work_result(work, t),
     unwound |-> FALSE]

\* WorkHandle::wait that reports a cancelled task whatever was sent.
wait_drops_result(channel) == Err("Rayon task cancelled")

\* WorkHandle::wait on a channel holding `channel` (None while nothing was
\* sent): the sent result, or the error when the sender is gone.
wait(channel) ==
    IF IsSome(channel) THEN Unwrap(channel) ELSE Err("Rayon task cancelled")

Running == {t \in 1..Len(tasks) : tasks[t].job = "running"}

InitWork ==
    /\ SearchIdle
    /\ PageIdle
    /\ GrepIdle
    /\ WorkIdle
    /\ TruncIdle
    /\ AuxIdle

\* launch_task(work): thread_pool() builds the pool on first use, the
\* oneshot channel is created and the closure spawned.  The caller awaits
\* the returned handle or drops it.
LaunchTask ==
    /\ pool # "aborted" /\ Len(tasks) < MaxTasks
    /\ \E work \in Works, receiver \in {"waiting", "dropped"} :
          tasks' = Append(tasks,
                     [work |-> work, job |-> "queued", sender |-> "live", sends |-> 0,
                      channel |-> None, receiver |-> receiver, returned |-> None])
    /\ queue' = Append(queue, Len(tasks) + 1)
    /\ pool' = "built"
    /\ UNCHANGED searchVars /\ UNCHANGED page /\ UNCHANGED grepVars /\ UNCHANGED trunc /\ UNCHANGED auxVars

\* An idle pool thread takes the oldest spawned job and calls the closure.
PoolTakesJob ==
    /\ pool = "built" /\ queue # <<>>
    /\ Cardinality(Running) < PoolThreads
    /\ tasks' = [tasks EXCEPT ![Head(queue)].job = "running"]
    /\ queue' = Tail(queue)
    /\ UNCHANGED pool
    /\ UNCHANGED searchVars /\ UNCHANGED page /\ UNCHANGED grepVars /\ UNCHANGED trunc /\ UNCHANGED auxVars

\* The closure of task t finishes: the work has returned or panicked, and
\* `let _ = sender.send(result)` hands the result to the channel; the send
\* to a dropped receiver fails and the failure is ignored.  The sender is
\* consumed.  A panic leaving the closure aborts the pool's process.
JobRuns(t) ==
    /\ pool = "built" /\ t \in Running
    /\ LET r == run_job(tasks[t].work, t) IN
       IF r.unwound
       THEN /\ pool' = "aborted"
            /\ tasks' = [tasks EXCEPT ![t].job = "done", ![t].sender = "dropped"]
       ELSE /\ pool' = pool
            /\ tasks' = [tasks EXCEPT
                            ![t].job = "done",
                            ![t].sender = "used",
                            ![t].sends = @ + 1,
                            ![t].channel = IF tasks[t].receiver = "dropped"
                                           THEN None ELSE Some(r.result)]
    /\ UNCHANGED queue
    /\ UNCHANGED searchVars /\ UNCHANGED page /\ UNCHANGED grepVars /\ UNCHANGED trunc /\ UNCHANGED auxVars

\* A spawned closure is dropped without being called (the runtime is going
\* down): its sender is dropped with nothing sent.
JobDropped ==
    /\ pool = "built" /\ queue # <<>>
    /\ \E k \in 1..Len(queue) :
          /\ tasks' = [tasks EXCEPT ![queue[k]].job = "dropped",
                                    ![queue[k]].sender = "dropped"]
          /\ queue' = SubSeq(queue, 1, k - 1) \o SubSeq(queue, k + 1, Len(queue))
    /\ UNCHANGED pool
    /\ UNCHANGED searchVars /\ UNCHANGED page /\ UNCHANGED grepVars /\ UNCHANGED trunc /\ UNCHANGED auxVars

\* WorkHandle::wait of task t completes: the receiver is woken by the send
\* or by the drop of the sender.
WaitReturns(t) ==
    /\ pool # "aborted" /\ t \in 1..Len(tasks)
    /\ tasks[t].receiver = "waiting"
    /\ IsSome(tasks[t].channel) \/ tasks[t].sender = "dropped"
    /\ tasks' = [tasks EXCEPT ![t].receiver = "returned",
                              ![t].returned = Some(wait(tasks[t].channel)),
                              ![t].channel = None]
    /\ UNCHANGED <<pool, queue>>
    /\ UNCHANGED searchVars /\ UNCHANGED page /\ UNCHANGED grepVars /\ UNCHANGED trunc /\ UNCHANGED auxVars

NextWork ==
    \/ LaunchTask
    \/ PoolTakesJob
    \/ \E t \in 1..MaxTasks : JobRuns(t)
    \/ JobDropped
    \/ \E t \in 1..MaxTasks : WaitReturns(t)

\* The pool's threads keep taking jobs, a called closure finishes, and an
\* awaited handle that was woken is polled.
SpecWork ==
    /\ InitWork /\ [][NextWork]_vars
    /\ WF_vars(PoolTakesJob)
    /\ \A t \in 1..MaxTasks : WF_vars(JobRuns(t))
    /\ \A t \in 1..MaxTasks : WF_vars(WaitReturns(t))

\* ------------------------------------------------------------------ claims
\* The line numbers of the matching lines of a stream, in order.
MatchLines(s) ==
    LET Hit(i) == s[i] IN SelectSeq([i \in 1..Len(s) |-> i], Hit)

LineNumbers(ms) == [i \in 1..Len(ms) |-> ms[i].line_number]

\* ------------------------------------------------- filters as pure functions
\* The paths, type shorthands and globs the filters are applied to.
FilterPaths ==
    { << <<"a", ".", "p", "y">> >>,
      << <<"a", ".", "p", "y", "i">> >>,
      << <<"a", ".", "t", "x", "t">> >>,
      << <<"A", ".", "P", "Y">> >>,
      << <<"p", "y">> >>,
      << <<".", "p", "y">> >>,
      << <<"D", "o", "c", "k", "e", "r", "f", "i", "l", "e">> >>,
      << <<"a", ".", "d", "o", "c", "k", "e", "r", "f", "i", "l", "e">> >>,
      << <<"r", "e", "a", "d", "m", "e", ".", "m", "d">> >>,
      << <<"d", "o", "c", "s">>, <<"r", "e", "a", "d", "m", "e", ".", "m", "d">> >>,
      << <<"x">>, <<"d", "o", "c", "s">>, <<"r", "e", "a", "d", "m", "e", ".", "m", "d">> >>,
      << <<"d", "o", "c", "s">>, <<"a", ".", "p", "y">> >> }

TypeNames ==
    { None,
      Some(<<>>),
      Some(<<" ">>),
      Some(<<"p", "y">>),
      Some(<<" ", "P", "Y", " ">>),
      Some(<<".", "p", "y">>),
      Some(<<"p", "y", "t", "h", "o", "n">>),
      Some(<<"t", "x", "t">>),
      Some(<<"d", "o", "c", "k", "e", "r">>),
      Some(<<"m", "d">>) }

FilterGlobs ==
    { None,
      Some(<<>>),
      Some(<<" ">>),
      Some(<<"*", ".", "m", "d">>),
      Some(<<" ", "*", ".", "m", "d", " ">>),
      Some(<<"r", "e", "a", "d", "m", "e", ".", "m", "d">>),
      Some(<<"d", "o", "c", "s", "/", "*", ".", "m", "d">>),
      Some(<<"d", "o", "c", "s", "\\", "*", ".", "m", "d">>),
      Some(<<"*", "*", "/", "*", ".", "p", "y">>),
      Some(<<"?", ".", "p", "y">>),
      Some(<<"[">>) }

InitFilter ==
    /\ filt \in [path : FilterPaths, type_name : TypeNames, glob : FilterGlobs,
                 phase : {"new"}, out : {None}]
    /\ fuzzy = <<>> /\ once = <<>>
    /\ SearchIdle /\ PageIdle /\ GrepIdle /\ WorkIdle /\ TruncIdle

\* resolve_type_filter, then the type test collect_files makes on a file.
ApplyTypeFilter ==
    /\ filt # <<>> /\ filt.phase = "new"
    /\ filt' = [filt EXCEPT !.phase = "type",
                            !.out = Some([filter |-> resolve_type_filter(filt.type_name),
                                          pass |-> passes_type_filter(filt.path,
                                                       resolve_type_filter(filt.type_name))])]
    /\ UNCHANGED <<fuzzy, once>>
    /\ UNCHANGED searchVars /\ UNCHANGED page /\ UNCHANGED grepVars
    /\ UNCHANGED workVars /\ UNCHANGED trunc

\* compile_glob, then the glob test collect_files makes on a file.
ApplyGlob ==
    /\ filt # <<>> /\ filt.phase = "new"
    /\ LET compiled == compile_glob(filt.glob)
       IN filt' = [filt EXCEPT !.phase = "glob",
                               !.out = Some([compiled |-> compiled,
                                             pass |-> compiled.ok
                                                      /\ passes_glob(filt.path, compiled.set)])]
    /\ UNCHANGED <<fuzzy, once>>
    /\ UNCHANGED searchVars /\ UNCHANGED page /\ UNCHANGED grepVars
    /\ UNCHANGED workVars /\ UNCHANGED trunc

NextFilter == ApplyTypeFilter \/ ApplyGlob

SpecFilter == InitFilter /\ [][NextFilter]_vars


\* ---------------------------------------------------------------- fuzzy find
MaxResults == 2          \* the largest max_results of a request

\* unwrap_or(100) of max_results.
DefaultMaxResults == 100

\* The paths below the root of a fuzzy find.
FuzzyPaths ==
    { << <<"B">> >>,
      << <<"a">> >>,
      << <<"a">>, <<"b">> >>,
      << <<"a", "-", "b">> >> }

\* The trees: each path is a regular file, a directory or a symbolic link,
\* and what lies inside a path lies inside a directory.
FuzzyTrees ==
    {t \in UNION {[S -> {"file", "dir", "symlink"}] : S \in SUBSET FuzzyPaths} :
        \A q \in DOMAIN t :
            Len(q) > 1 => /\ SubSeq(q, 1, Len(q) - 1) \in DOMAIN t
                          /\ t[SubSeq(q, 1, Len(q) - 1)] = "dir"}

Queries == {<<>>, <<"b">>, <<"A">>, <<"/">>}

\* The entries the walker yields: the root at depth 0, then the paths below
\* it, siblings sorted by file path and a directory before what it holds.
fuzzy_walk(t) ==
    LET below == SortSeq(SetToSeq(DOMAIN t), path_cmp_less)
    IN <<[path |-> <<>>, kind |-> "dir", depth |-> 0]>>
       \o [i \in 1..Len(below) |->
              [path |-> below[i], kind |-> t[below[i]], depth |-> Len(below[i])]]

\* str::contains.
contains(haystack, needle) ==
    \E i \in 0..(Len(haystack) - Len(needle)) :
        SubSeq(haystack, i + 1, i + Len(needle)) = needle

FuzzyFindMatch(relative, is_directory) ==
    [path |-> IF is_directory THEN relative \o <<"/">> ELSE relative,
     is_directory |-> is_directory]

\* One turn of the loop of fuzzy_find_sync that counts a match only when it
\* is pushed.
fuzzy_iteration_counts_pushed(st, entry, query_lower, max_results) ==
    IF entry.kind = "symlink" \/ entry.depth = 0 THEN st
    ELSE IF /\ query_lower # <<>>
            /\ ~contains(to_lowercase(normalize_relative_path(entry.path)), query_lower)
         THEN st
    ELSE IF Len(st.matches) < max_results
         THEN [matches |-> Append(st.matches,
                               FuzzyFindMatch(normalize_relative_path(entry.path),
                                              entry.kind = "dir")),
               total_matches |-> st.total_matches + 1]
         ELSE st

\* One turn of the loop of fuzzy_find_sync on a walk entry.
fuzzy_iteration(st, entry, query_lower, max_results) ==
    IF entry.kind = "symlink" \/ entry.depth = 0 THEN st
    ELSE IF /\ query_lower # <<>>
            /\ ~contains(to_lowercase(normalize_relative_path(entry.path)), query_lower)
         THEN st
    ELSE [matches |-> IF Len(st.matches) < max_results
                      THEN Append(st.matches,
                               FuzzyFindMatch(normalize_relative_path(entry.path),
                                              entry.kind = "dir"))
                      ELSE st.matches,
          total_matches |-> st.total_matches + 1]

FuzzyRequests ==
    [root : {"dir", "file", "missing"}, tree : FuzzyTrees, query : Queries,
     max_results : Options(MaxResults)]

InitFuzzy ==
    /\ \E r \in FuzzyRequests :
          /\ r.root # "dir" => (r.tree = << >> /\ r.query = <<>> /\ r.max_results = None)
          /\ fuzzy = [req |-> r, pc |-> "start", walk |-> <<>>, next |-> 1,
                      st |-> [matches |-> <<>>, total_matches |-> 0], result |-> None]
    /\ filt = <<>> /\ once = <<>>
    /\ SearchIdle /\ PageIdle /\ GrepIdle /\ WorkIdle /\ TruncIdle

\* fuzzy_find_sync up to the loop: the root must exist and be a directory.
FuzzyStart ==
    /\ fuzzy # <<>> /\ fuzzy.pc = "start"
    /\ fuzzy' =
          IF fuzzy.req.root = "missing"
          THEN [fuzzy EXCEPT !.pc = "returned", !.result = Some(Err("Path not found"))]
          ELSE IF fuzzy.req.root # "dir"
          THEN [fuzzy EXCEPT !.pc = "returned",
                             !.result = Some(Err("Path must be a directory"))]
          ELSE [fuzzy EXCEPT !.pc = "walking", !.walk = fuzzy_walk(fuzzy.req.tree)]
    /\ UNCHANGED <<filt, once>>
    /\ UNCHANGED searchVars /\ UNCHANGED page /\ UNCHANGED grepVars
    /\ UNCHANGED workVars /\ UNCHANGED trunc

\* The loop body on the next entry of the walk.
FuzzyEntry ==
    /\ fuzzy # <<>> /\ fuzzy.pc = "walking" /\ fuzzy.next <= Len(fuzzy.walk)
    /\ fuzzy' = [fuzzy EXCEPT
                    !.next = fuzzy.next + 1,
                    !.st = fuzzy_iteration(fuzzy.st, fuzzy.walk[fuzzy.next],
                               to_lowercase(fuzzy.req.query),
                               IF fuzzy.req.max_results = None THEN DefaultMaxResults
                               ELSE Unwrap(fuzzy.req.max_results))]
    /\ UNCHANGED <<filt, once>>
    /\ UNCHANGED searchVars /\ UNCHANGED page /\ UNCHANGED grepVars
    /\ UNCHANGED workVars /\ UNCHANGED trunc

\* The walk is over: Ok(FuzzyFindResult { matches, total_matches }).
FuzzyReturn ==
    /\ fuzzy # <<>> /\ fuzzy.pc = "walking" /\ fuzzy.next > Len(fuzzy.walk)
    /\ fuzzy' = [fuzzy EXCEPT !.pc = "returned", !.result = Some(Ok(fuzzy.st))]
    /\ UNCHANGED <<filt, once>>
    /\ UNCHANGED searchVars /\ UNCHANGED page /\ UNCHANGED grepVars
    /\ UNCHANGED workVars /\ UNCHANGED trunc

NextFuzzy == FuzzyStart \/ FuzzyEntry \/ FuzzyReturn

SpecFuzzy == InitFuzzy /\ [][NextFuzzy]_vars


\* ------------------------------------------------ thread_pool, the OnceLock
MaxCallers == 3          \* threads that call launch_task
MaxCalls == 2            \* calls of launch_task per thread

\* A lazy initialisation that lets every caller that finds the cell not
\* complete run the initialiser.
call_once_unsynchronized(state) == IF state = "complete" THEN "done" ELSE "run"

\* Once::call_once_force as OnceLock::initialize uses it: the caller that
\* finds the cell incomplete runs the initialiser, a caller that finds it
\* running waits, a caller that finds it complete goes on.
call_once(state) ==
    IF state = "incomplete" THEN "run"
    ELSE IF state = "running" THEN "wait"
    ELSE "done"

\* No pool exists and no thread has called launch_task.  A caller is at
\* "idle" (between calls), "get" (thread_pool entered), "init" (in
\* OnceLock::initialize), "build" (running the closure of get_or_init),
\* or "spawn" (holding the &'static ThreadPool it was given).
InitPool ==
    /\ once = [state |-> "incomplete", value |-> None, built |-> 0,
               callers |-> [c \in 1..MaxCallers |->
                               [pc |-> "idle", calls |-> 0, pool |-> None,
                                raced |-> FALSE, spawned |-> <<>>]]]
    /\ filt = <<>> /\ fuzzy = <<>>
    /\ SearchIdle /\ PageIdle /\ GrepIdle /\ WorkIdle /\ TruncIdle

\* A thread calls launch_task, which calls thread_pool().
CallLaunchTask(c) ==
    /\ once # <<>> /\ once.callers[c].pc = "idle" /\ once.callers[c].calls < MaxCalls
    /\ once' = [once EXCEPT !.callers[c].pc = "get", !.callers[c].calls = @ + 1]
    /\ UNCHANGED <<filt, fuzzy>>
    /\ UNCHANGED searchVars /\ UNCHANGED page /\ UNCHANGED grepVars
    /\ UNCHANGED workVars /\ UNCHANGED trunc

\* POOL.get_or_init, fast path: the value if the cell is initialised.
GetOrInit(c) ==
    /\ once # <<>> /\ once.callers[c].pc = "get"
    /\ once' = IF once.state = "complete"
               THEN [once EXCEPT !.callers[c].pc = "spawn",
                                 !.callers[c].pool = once.value]
               ELSE [once EXCEPT !.callers[c].pc = "init",
                                 !.callers[c].raced = TRUE]
    /\ UNCHANGED <<filt, fuzzy>>
    /\ UNCHANGED searchVars /\ UNCHANGED page /\ UNCHANGED grepVars
    /\ UNCHANGED workVars /\ UNCHANGED trunc

\* POOL.get_or_init, slow path: call_once_force lets one caller run the
\* closure; the others go on once the cell is complete.
Initialize(c) ==
    /\ once # <<>> /\ once.callers[c].pc = "init"
    /\ call_once(once.state) # "wait"
    /\ once' = IF call_once(once.state) = "run"
               THEN [once EXCEPT !.state = "running", !.callers[c].pc = "build"]
               ELSE [once EXCEPT !.callers[c].pc = "spawn",
                                 !.callers[c].pool = once.value]
    /\ UNCHANGED <<filt, fuzzy>>
    /\ UNCHANGED searchVars /\ UNCHANGED page /\ UNCHANGED grepVars
    /\ UNCHANGED workVars /\ UNCHANGED trunc

\* The closure of get_or_init: ThreadPoolBuilder::new()...build() makes a new
\* pool, which is stored in the cell.
BuildPool(c) ==
    /\ once # <<>> /\ once.callers[c].pc = "build"
    /\ once' = [once EXCEPT !.built = @ + 1,
                            !.state = "complete",
                            !.value = Some(once.built + 1),
                            !.callers[c].pc = "spawn",
                            !.callers[c].pool = Some(once.built + 1)]
    /\ UNCHANGED <<filt, fuzzy>>
    /\ UNCHANGED searchVars /\ UNCHANGED page /\ UNCHANGED grepVars
    /\ UNCHANGED workVars /\ UNCHANGED trunc

\* launch_task: pool.spawn(closure) on the pool thread_pool() returned.
SpawnOnPool(c) ==
    /\ once # <<>> /\ once.callers[c].pc = "spawn"
    /\ once' = [once EXCEPT !.callers[c].pc = "idle",
                            !.callers[c].spawned = Append(@, Unwrap(once.callers[c].pool)),
                            !.callers[c].pool = None]
    /\ UNCHANGED <<filt, fuzzy>>
    /\ UNCHANGED searchVars /\ UNCHANGED page /\ UNCHANGED grepVars
    /\ UNCHANGED workVars /\ UNCHANGED trunc

NextPool ==
    \E c \in 1..MaxCallers :
        \/ CallLaunchTask(c)
        \/ GetOrInit(c)
        \/ Initialize(c)
        \/ BuildPool(c)
        \/ SpawnOnPool(c)

SpecPool == InitPool /\ [][NextPool]_vars


\* C1: with a maximum count m configured (0 included), a content-mode
\* search() or grep() returns at most m match records.
C1_ReturnedAtMostMax ==
    /\ (scan = "returned" /\ opts.mode = "Content" /\ IsSome(opts.max_count))
          => Len(result[1].matches) <= Unwrap(opts.max_count)
    /\ (report # <<>> /\ req.mode = "Content" /\ IsSome(req.max_count))
          => Len(report[1].matches) <= Unwrap(req.max_count)

\* C2: in every state of a collector pass collected_count <= match_count,
\* and collected_count <= max_count when a maximum is set (0 included).
C2_CollectedBounded ==
    /\ collector.collected_count <= collector.match_count
    /\ IsSome(collector.max_count)
          => collector.collected_count <= Unwrap(collector.max_count)

\* C3: the matches of search(offset 0, max k) followed by the matches of
\* search(offset k, no max) are the matches of the unbounded search, for
\* every k >= 0.
C3_PrefixSkipReconstructs ==
    (page # <<>> /\ page.phase = "full")
        => page.first[1].matches \o page.rest[1].matches = page.full[1].matches

\* C4: a content-mode pass with offset o and max_count m >= 1 retains exactly
\* the matches at positions o+1 .. min(|M|, o+m) of the stream's match
\* sequence M, and reports limit_reached exactly when m matches were retained.
C4_WindowRetained ==
    (scan = "returned" /\ opts.mode = "Content" /\ IsSome(opts.max_count)
        /\ Unwrap(opts.max_count) >= 1)
    => LET M == MatchLines(stream)
           o == OffsetOf(opts.offset)
           m == Unwrap(opts.max_count)
       IN /\ LineNumbers(result[1].matches) = SubSeq(M, o + 1, Min(Len(M), o + m))
          /\ result[1].limit_reached <=> (Len(result[1].matches) = m)

\* The scenario of the specification: matches on lines 1, 3, 5, offset 1,
\* max_count 2 gives lines 3 and 5, match_count 3, limit_reached.
C4_Witness ==
    /\ scan = "returned" /\ opts.mode = "Content"
    /\ stream = <<TRUE, FALSE, TRUE, FALSE, TRUE>>
    /\ opts.offset = Some(1) /\ opts.max_count = Some(2)
    /\ LineNumbers(result[1].matches) = <<3, 5>>
    /\ result[1].match_count = 3
    /\ result[1].limit_reached

\* C6: every match notification increments match_count exactly once, the
\* skipped ones and the one answered with the stop signal included; with no
\* maximum the reported match_count is the number of matching lines.
C6_MatchCountCountsEveryNotification ==
    /\ collector.match_count = notified
    /\ (scan = "returned" /\ opts.max_count = None)
          => result[1].match_count = Len(MatchLines(stream))

\* A pass that skipped a match by offset and was then stopped at the limit.
C6_Witness ==
    /\ last_signal = "stop"
    /\ collector.skipped > 0
    /\ collector.collected_count > 0
    /\ collector.match_count = collector.skipped + collector.collected_count + 1

\* The full match list of a file: what an unbounded content-mode search of
\* it retains; nothing for a file that cannot be opened or read.
FullMatches(file, context_n) ==
    IF file.status = "ok"
    THEN run_search_reader(file.content, context_n, "Content", None, 0).matches
    ELSE <<>>

\* The concatenation of the files' full match lists, each record tagged with
\* its file's relative path, over the entries es in their order.
RECURSIVE AllRecords(_, _, _)
AllRecords(es, t, context_n) ==
    IF es = <<>> THEN <<>>
    ELSE FileRecords("Content", Head(es).relative_path,
                     FullMatches(t[Head(es).path], context_n), 0)
            \o AllRecords(Tail(es), t, context_n)

\* Elements o+1 .. o+m of M (to the end when there is no maximum).
Window(M, o, max_count) ==
    SubSeq(M, o + 1,
           IF IsSome(max_count) THEN Min(Len(M), o + Unwrap(max_count)) ELSE Len(M))

\* C5: the sequential path returns exactly elements o+1 .. o+m of the
\* concatenation of the files' full match lists in discovery order, and
\* after each file the retained records are that window of the files
\* searched so far.
C5_SequentialWindow ==
    (strategy = "sequential" /\ req.mode = "Content")
    => /\ gpc = "seq"
            => seq.matches =
                 Window(AllRecords(SubSeq(entries, 1, seq.i - 1), tree, grep_context(req)),
                        OffsetOf(req.offset), req.max_count)
       /\ gpc = "done"
            => report[1].matches =
                 Window(AllRecords(entries, tree, grep_context(req)),
                        OffsetOf(req.offset), req.max_count)

\* A page that starts inside the first file and ends inside the second.
C5_Witness ==
    /\ gpc = "done" /\ strategy = "sequential" /\ req.mode = "Content"
    /\ req.offset = Some(1) /\ req.max_count = Some(2)
    /\ Len(report[1].matches) = 2
    /\ report[1].matches[1].path = entries[1].relative_path
    /\ report[1].matches[1].line_number = 2
    /\ report[1].matches[2].path = entries[2].relative_path
    /\ report[1].matches[2].line_number = 1
    /\ Len(FullMatches(tree[entries[2].path], 0)) = 2

\* C7: on a directory root with at least one candidate file grep (past the
\* checks of its root, pattern and glob) runs the parallel strategy iff no
\* max_count was requested and the offset is absent or zero, and the
\* sequential strategy otherwise.
C7_ParallelIffUnpaged ==
    (req # <<>> /\ req.root = "dir" /\ DOMAIN tree # {}
        /\ gpc \notin {"start", "dispatch", "error"})
    => /\ strategy \in {"parallel", "sequential"}
       /\ strategy = "parallel"
            <=> (req.max_count = None /\ req.offset \in {None, Some(0)})

\* A request with offset 0 given explicitly ran in parallel.
C7_Witness ==
    /\ gpc = "done" /\ strategy = "parallel"
    /\ req.offset = Some(0) /\ req.max_count = None
    /\ Cardinality(DOMAIN tree) = 2

\* The report of a parallel grep as a function of the tree and the request
\* alone: the readable files in the order of their relative-path strings.
ReadableByPath(t) ==
    LET Less(a, b) == str_cmp_less(a.relative_path, b.relative_path)
    IN SortSeq(SetToSeq({FileEntry(p) : p \in {q \in DOMAIN t : t[q].status = "ok"}}), Less)

FileCount(file, context_n, mode) ==
    run_search_reader(file.content, context_n, mode, None, 0).match_count

RECURSIVE ExpectedRecords(_, _, _, _)
ExpectedRecords(es, t, context_n, mode) ==
    IF es = <<>> THEN <<>>
    ELSE LET s == run_search_reader(t[Head(es).path].content, context_n, mode, None, 0)
         IN (IF s.match_count = 0 THEN <<>>
             ELSE FileRecords(mode, Head(es).relative_path, s.matches, s.match_count))
            \o ExpectedRecords(Tail(es), t, context_n, mode)

RECURSIVE SumCounts(_, _, _, _)
SumCounts(es, t, context_n, mode) ==
    IF es = <<>> THEN 0
    ELSE FileCount(t[Head(es).path], context_n, mode)
            + SumCounts(Tail(es), t, context_n, mode)

ExpectedParallelReport ==
    LET es == ReadableByPath(tree)
        n == grep_context(req)
    IN [matches            |-> ExpectedRecords(es, tree, n, req.mode),
        total_matches      |-> SumCounts(es, tree, n, req.mode),
        files_with_matches |->
            Cardinality({i \in 1..Len(es) : FileCount(tree[es[i].path], n, req.mode) > 0}),
        files_searched     |-> Len(es),
        limit_reached      |-> None]

\* C8: the report of the parallel path is the same for every completion
\* order of the worker tasks: it is determined by the tree and the request.
C8_ParallelReportDeterministic ==
    (strategy = "parallel" /\ gpc \in {"done", "refdone"})
        => report[1] = ExpectedParallelReport

\* A parallel grep over three readable files with matches in at least two.
C8_Witness ==
    /\ strategy = "parallel" /\ gpc = "done"
    /\ Len(results) = 3
    /\ report[1].files_with_matches >= 2
    /\ req.mode = "Content"
    /\ report[1].total_matches = Len(report[1].matches)

\* The records of a report grouped by file.
PerFile(r) ==
    LET paths == {r.matches[i].path : i \in 1..Len(r.matches)}
    IN {LET Of(m) == m.path = p IN <<p, SelectSeq(r.matches, Of)>> : p \in paths}

\* C9: with no offset and no maximum the sequential strategy, run as a
\* reference over the same file list, gives the same per-file results, the
\* same total_matches, files_with_matches and files_searched, and
\* limit_reached absent in both.
C9_SequentialReferenceAgrees ==
    gpc = "refdone"
    => /\ PerFile(reference[1]) = PerFile(report[1])
       /\ reference[1].total_matches = report[1].total_matches
       /\ reference[1].files_with_matches = report[1].files_with_matches
       /\ reference[1].files_searched = report[1].files_searched
       /\ reference[1].limit_reached = None
       /\ report[1].limit_reached = None

\* C10: the order of the files after the parallel path's sort on the
\* relative-path string is the discovery order the sequential path iterates.
C10_SortedOrderIsDiscoveryOrder ==
    (strategy = "parallel" /\ gpc \in {"merge", "done", "refdone"})
    => LET Readable(e) == tree[e.path].status = "ok"
           discovered == SelectSeq(entries, Readable)
       IN [i \in 1..Len(results) |-> results[i].relative_path]
            = [i \in 1..Len(discovered) |-> discovered[i].relative_path]

\* The totals and the records run_sequential_search has accumulated.
SeqTotals(st) ==
    <<st.files_searched, st.files_with_matches, st.total_matches, st.matches>>

\* C11: in the sequential path, from the point where limit_reached is true
\* (or the remaining budget is zero at the start of a file) no step changes
\* files_searched, files_with_matches, total_matches or the record list, no
\* further entry is visited, and the returned result carries those values.
C11_NothingAfterLimit ==
    [][(gpc = "seq" /\ (seq.limit_reached \/ req.max_count = Some(seq.collected)))
          => /\ SeqTotals(seq') = SeqTotals(seq)
             /\ seq'.i = seq.i
             /\ seq'.limit_reached
             /\ gpc' = "done" =>
                   /\ report'[1].matches = seq.matches
                   /\ report'[1].total_matches = seq.total_matches
                   /\ report'[1].files_with_matches = seq.files_with_matches
                   /\ report'[1].files_searched = seq.files_searched]_vars

\* A sequential grep that returned with the limit reached while a later
\* readable file with a match was still unvisited.
C11_Witness ==
    /\ gpc = "done" /\ strategy = "sequential"
    /\ seq.limit_reached /\ seq.i <= Len(entries)
    /\ seq.files_searched >= 1
    /\ \E j \in seq.i..Len(entries) :
          /\ tree[entries[j].path].status = "ok"
          /\ MatchLines(tree[entries[j].path].content) # <<>>

\* The match_count of one file's pass: the match notifications up to the one
\* answered with the stop signal, which follows the file_offset skipped and
\* the remaining retained ones; every matching line when there is no budget.
SeenCount(file, file_offset, remaining) ==
    LET n == Len(MatchLines(file.content)) IN
    IF remaining = None THEN n ELSE Min(n, file_offset + Unwrap(remaining) + 1)

\* The count-mode record of a visited file: none when it cannot be searched
\* or has no match.
CountRecordOf(entry, file, file_offset, remaining) ==
    IF file.status = "ok" /\ SeenCount(file, file_offset, remaining) > 0
    THEN <<CountEntry(entry.relative_path, SeenCount(file, file_offset, remaining))>>
    ELSE <<>>

RECURSIVE RecordCountSum(_)
RecordCountSum(ms) ==
    IF ms = <<>> THEN 0 ELSE Unwrap(Head(ms).match_count) + RecordCountSum(Tail(ms))

C12_WitnessParallel ==
    /\ gpc = "done" /\ strategy = "parallel" /\ req.mode = "Count"
    /\ \E p, q \in DOMAIN tree :
          /\ tree[p].status = "ok" /\ tree[p].content = <<TRUE, TRUE>>
          /\ tree[q].status = "ok" /\ tree[q].content = <<FALSE, TRUE>>
    /\ Len(report[1].matches) = 2
    /\ report[1].total_matches = 3 /\ report[1].files_with_matches = 2

\* The entries among es[1..k] whose file can be opened and read to the end.
SearchedOk(es, t, k) == {j \in 1..k : t[es[j].path].status = "ok"}

\* The entries among es[1..k] whose file is searched and has a matching line.
WithMatches(es, t, k) ==
    {j \in SearchedOk(es, t, k) : MatchLines(t[es[j].path].content) # <<>>}

\* C13: a file that cannot be opened, or whose read fails during the scan,
\* is silently skipped on the parallel and on the sequential path: the
\* request does not fail, the failing file counts neither in files_searched
\* nor in files_with_matches, and every other file met is searched and
\* counted.
C13_PerFileFailureSkipped ==
    /\ strategy \in {"parallel", "sequential"} => gpc # "error"
    /\ gpc = "seq" =>
          /\ seq.files_searched = Cardinality(SearchedOk(entries, tree, seq.i - 1))
          /\ seq.files_with_matches = Cardinality(WithMatches(entries, tree, seq.i - 1))
    /\ (gpc = "done" /\ strategy = "parallel") =>
          /\ report[1].files_searched
                = Cardinality(SearchedOk(entries, tree, Len(entries)))
          /\ report[1].files_with_matches
                = Cardinality(WithMatches(entries, tree, Len(entries)))

\* C14: search() never raises on a pattern that does not compile: it returns
\* the error populated with an empty matches list, match_count 0 and
\* limit_reached false; when the pattern compiles the error is absent, also
\* when nothing matched.
C14_CompileErrorInResult ==
    /\ (scan # "idle" /\ opts.pattern = "(") =>
          /\ scan = "failed"
          /\ IsSome(result[1].error)
          /\ result[1].matches = <<>>
          /\ result[1].match_count = 0
          /\ result[1].limit_reached = FALSE
    /\ (result # <<>> /\ opts.pattern # "(") =>
          /\ scan = "returned"
          /\ result[1].error = None

\* A search over content with lines the other pattern matches, returned with
\* the compile error.
C14_Witness ==
    /\ scan = "failed" /\ opts.pattern = "("
    /\ MatchLines(stream) # <<>>
    /\ result[1].error = Some("Regex error")

\* A search whose pattern compiles and matches nothing: no error.
C14_WitnessNoMatch ==
    /\ scan = "returned" /\ opts.pattern = "x"
    /\ MatchLines(stream) = <<>> /\ Len(stream) > 0
    /\ result[1].matches = <<>> /\ result[1].error = None

\* C15: when the root does not exist, the pattern does not compile or the
\* glob is invalid, grep returns an error, no file is discovered or
\* searched, and on_match is never called.
C15_FailsFast ==
    (req.root = "missing" \/ req.pattern = "(" \/ req.glob = Some(<<"[">>))
        => /\ gpc \in {"start", "error"}
           /\ strategy = "none"
           /\ entries = <<>> /\ pending = {} /\ results = <<>> /\ seq = <<>>
           /\ report = <<>>
           /\ callbacks = <<>>

\* A grep with an invalid glob on a directory whose files have matching
\* lines, returned with the error.
C15_Witness ==
    /\ gpc = "error" /\ req.root = "dir"
    /\ req.pattern = "x" /\ req.glob = Some(<<"[">>)
    /\ \E p \in DOMAIN tree :
          tree[p].status = "ok" /\ MatchLines(tree[p].content) # <<>>
    /\ callbacks = <<>> /\ entries = <<>>

\* C16: every launched task resolves its handle exactly once: an awaited
\* handle eventually returns; it returns the work closure's own result when
\* the closure returned; its value, once returned, never changes; and the
\* channel of a task is sent to at most once, by its own closure.
C16_HandleResolvesOnce ==
    /\ \A t \in 1..MaxTasks :
          (t \in 1..Len(tasks) /\ tasks[t].receiver = "waiting")
              ~> (t \in 1..Len(tasks) /\ tasks[t].receiver = "returned"
                    /\ IsSome(tasks[t].returned))
    /\ [](\A t \in 1..Len(tasks) :
            /\ tasks[t].sends <= 1
            /\ tasks[t].sends = 1 <=> tasks[t].sender = "used"
            /\ IsSome(tasks[t].returned) <=> tasks[t].receiver = "returned"
            /\ (IsSome(tasks[t].returned) /\ tasks[t].job = "done"
                    /\ tasks[t].work # "panic")
                  => Unwrap(tasks[t].returned) = work_result(tasks[t].work, t))
    /\ [][\A t \in 1..Len(tasks) :
            IsSome(tasks[t].returned) => tasks'[t] = tasks[t]]_vars

\* Two awaited tasks whose closures returned Ok and Err: each handle
\* returned its own closure's result.
C16_Witness ==
    /\ Len(tasks) >= 2
    /\ tasks[1].work = "ok" /\ tasks[1].returned = Some(Ok(1))
    /\ tasks[2].work = "err" /\ tasks[2].returned = Some(Err("work failed"))

\* C17: a panic of a work closure is caught: the task's handle resolves to
\* the error "Rayon task panicked" and the pool stays up, so every other
\* spawned job is still taken and every awaited handle still resolves; a
\* sender dropped with nothing sent makes wait() return "Rayon task
\* cancelled" instead of hanging; a dropped receiver does not make the
\* worker fail.
C17_PanicAndCancelReported ==
    /\ [](pool # "aborted")
    /\ [](\A t \in 1..Len(tasks) :
            /\ (IsSome(tasks[t].returned) /\ tasks[t].work = "panic"
                    /\ tasks[t].job = "done")
                  => tasks[t].returned = Some(Err("Rayon task panicked"))
            /\ (IsSome(tasks[t].returned) /\ tasks[t].job = "dropped")
                  => tasks[t].returned = Some(Err("Rayon task cancelled"))
            /\ (tasks[t].job = "done" /\ tasks[t].receiver = "dropped")
                  => tasks[t].sender = "used" /\ tasks[t].returned = None)
    /\ \A t \in 1..MaxTasks :
          /\ (t \in 1..Len(tasks) /\ tasks[t].job = "queued")
                ~> (t \in 1..Len(tasks) /\ tasks[t].job \in {"done", "dropped"})
          /\ (t \in 1..Len(tasks) /\ tasks[t].receiver = "waiting"
                  /\ tasks[t].sender = "dropped")
                ~> (t \in 1..Len(tasks)
                      /\ tasks[t].returned = Some(Err("Rayon task cancelled")))

\* The first task panicked and its handle returned the panic error; the
\* second task, launched after it, ran and returned its own result.
C17_Witness ==
    /\ Len(tasks) = 2
    /\ tasks[1].work = "panic" /\ tasks[1].job = "done"
    /\ tasks[1].returned = Some(Err("Rayon task panicked"))
    /\ tasks[2].work = "ok" /\ tasks[2].returned = Some(Ok(2))

\* A closure dropped unrun: the awaited handle returned the cancellation.
C17_WitnessCancelled ==
    \E t \in 1..Len(tasks) :
        tasks[t].job = "dropped" /\ tasks[t].returned = Some(Err("Rayon task cancelled"))

\* A closure that finished after its handle had been dropped, next to a
\* task that resolved.
C17_WitnessDroppedReceiver ==
    /\ Len(tasks) = 2
    /\ tasks[1].receiver = "dropped" /\ tasks[1].job = "done"
    /\ tasks[2].returned = Some(Ok(2))

\* C18: on every path that produces records (parallel, sequential and
\* single-file root) on_match is called exactly once per record of the
\* returned matches list, with the same record, in the order of the list.
C18_CallbackPerRecord ==
    report # <<>> => callbacks = report[1].matches

\* The number of characters of a line.
CharLen(s) == Cardinality({i \in 1..Len(s) : s[i] # "c"})

\* A byte string that is whole characters of a line followed by an ellipsis.
CutWithEllipsis(out, line) ==
    \E b \in 0..Len(line) :
        /\ is_char_boundary(line, b)
        /\ out = SubSeq(line, 1, b) \o <<".", ".", ".">>

\* C19: with max_columns = c, a match or context line of exactly c
\* characters is returned unchanged and not flagged; a line of c + 1
\* characters is cut at a character boundary, gets the ellipsis and, as a
\* match line, the truncated flag; for lines with multi-byte characters as
\* for ASCII lines.
C19_ColumnBudget ==
    (trunc # <<>> /\ trunc.kind # "none" /\ IsSome(trunc.max_columns)) =>
        LET c == Unwrap(trunc.max_columns)
            out == trunc.out[1]
        IN /\ CharLen(trunc.line) = c =>
                /\ out.line = trunc.line
                /\ trunc.kind = "match" => ~out.truncated
           /\ CharLen(trunc.line) = c + 1 =>
                /\ CutWithEllipsis(out.line, trunc.line)
                /\ trunc.kind = "match" => out.truncated
           /\ out.line # trunc.line => CutWithEllipsis(out.line, trunc.line)

\* The line numbers a..b as context lines; None when there are none.
ContextWindow(a, b) ==
    IF b < a THEN None ELSE Some([i \in 1..(b - a + 1) |-> a + i - 1])

\* C20: for a stream whose only matching line k has at least N lines before
\* and N lines after it, a content-mode search with context N returns that
\* match with exactly the N lines k-N..k-1 as context_before and the N lines
\* k+1..k+N as context_after, each with its own line number, increasing.
C20_ContextWindow ==
    (scan = "returned" /\ opts.mode = "Content"
        /\ OffsetOf(opts.offset) = 0 /\ opts.max_count # Some(0)
        /\ Len(MatchLines(stream)) = 1
        /\ MatchLines(stream)[1] > opts.context
        /\ MatchLines(stream)[1] + opts.context <= Len(stream))
    => LET k == MatchLines(stream)[1]
           N == opts.context
       IN /\ Len(result[1].matches) = 1
          /\ result[1].matches[1].line_number = k
          /\ result[1].matches[1].context_before = ContextWindow(k - N, k - 1)
          /\ result[1].matches[1].context_after = ContextWindow(k + 1, k + N)

\* A lone match in the middle of five lines, searched with the largest
\* context: the lines before and after it are its context.
C20_Witness ==
    /\ scan = "returned" /\ opts.mode = "Content"
    /\ opts.context = MaxCtx /\ opts.max_count = None /\ opts.offset = None
    /\ stream = <<FALSE, FALSE, TRUE, FALSE, FALSE>>
    /\ result[1].matches[1].context_before = ContextWindow(3 - MaxCtx, 2)
    /\ result[1].matches[1].context_after = ContextWindow(4, 3 + MaxCtx)

\* The extension set and the name set the type shorthands of TypeNames stand
\* for; None where the shorthand means no filter.
C21_Expected(type_name) ==
    CASE type_name \in {None, Some(<<>>), Some(<<" ">>)} -> None
      [] type_name \in {Some(<<"p", "y">>), Some(<<" ", "P", "Y", " ">>), Some(<<".", "p", "y">>), Some(<<"p", "y", "t", "h", "o", "n">>)} ->
            Some([extensions |-> {<<"p", "y">>, <<"p", "y", "i">>}, names |-> {}])
      [] type_name = Some(<<"t", "x", "t">>) ->
            Some([extensions |-> {<<"t", "x", "t">>}, names |-> {}])
      [] type_name = Some(<<"d", "o", "c", "k", "e", "r">>) ->
            Some([extensions |-> {}, names |-> {<<"d", "o", "c", "k", "e", "r", "f", "i", "l", "e">>}])
      [] type_name = Some(<<"m", "d">>) ->
            Some([extensions |-> {<<"m", "d">>, <<"m", "a", "r", "k", "d", "o", "w", "n">>, <<"m", "d", "x">>}, names |-> {}])

\* C21: a file passes the type filter iff its extension is in the filter's
\* extension set or its base name is in the filter's name set, compared
\* case-insensitively; a known shorthand stands for its fixed sets ("py"
\* admits a.py and a.pyi and rejects a.txt), an unknown shorthand for the
\* single extension equal to itself, an absent or blank one for no filter,
\* which every file passes.
C21_TypeFilter ==
    (filt # <<>> /\ filt.phase = "type") =>
        LET out == Unwrap(filt.out)
            expected == C21_Expected(filt.type_name)
            ext == extension(filt.path)
        IN /\ out.filter = expected
           /\ expected = None => out.pass
           /\ expected # None =>
                  (out.pass <=>
                      \/ /\ ext # None
                         /\ to_lowercase(Unwrap(ext)) \in Unwrap(expected).extensions
                      \/ to_lowercase(file_name(filt.path)) \in Unwrap(expected).names)
           /\ filt.type_name = Some(<<"p", "y">>) =>
                  /\ filt.path \in {<< <<"a", ".", "p", "y">> >>, << <<"a", ".", "p", "y", "i">> >>} => out.pass
                  /\ filt.path = << <<"a", ".", "t", "x", "t">> >> => ~out.pass

\* The shorthand "py" applied to a.pyi: the file passes.
C21_Witness ==
    /\ filt # <<>> /\ filt.phase = "type"
    /\ filt.type_name = Some(<<"p", "y">>) /\ filt.path = << <<"a", ".", "p", "y", "i">> >>
    /\ Unwrap(filt.out).pass

\* The patterns the globs of FilterGlobs are compiled to; None where the glob
\* means no glob filter.
C30_Expected(glob) ==
    CASE glob \in {None, Some(<<>>), Some(<<" ">>)} -> None
      [] glob \in {Some(<<"*", ".", "m", "d">>), Some(<<" ", "*", ".", "m", "d", " ">>)} -> Some(<<"*", "*", "/", "*", ".", "m", "d">>)
      [] glob = Some(<<"r", "e", "a", "d", "m", "e", ".", "m", "d">>) -> Some(<<"*", "*", "/", "r", "e", "a", "d", "m", "e", ".", "m", "d">>)
      [] glob \in {Some(<<"d", "o", "c", "s", "/", "*", ".", "m", "d">>), Some(<<"d", "o", "c", "s", "\\", "*", ".", "m", "d">>)} -> Some(<<"d", "o", "c", "s", "/", "*", ".", "m", "d">>)
      [] glob = Some(<<"*", "*", "/", "*", ".", "p", "y">>) -> Some(<<"*", "*", "/", "*", ".", "p", "y">>)
      [] glob = Some(<<"?", ".", "p", "y">>) -> Some(<<"*", "*", "/", "?", ".", "p", "y">>)

\* C30: a glob with no path separator once its backslashes are "/" is
\* compiled with the prefix "**/" and matches at any depth ("*.md" and
\* "readme.md" match docs/readme.md); a glob with a separator is compiled
\* as it is (docs/*.md matches docs/readme.md only); an absent or blank glob
\* gives no glob filter, which every path passes.
C30_GlobRewritten ==
    (filt # <<>> /\ filt.phase = "glob" /\ Unwrap(filt.out).compiled.ok) =>
        LET out == Unwrap(filt.out)
        IN /\ out.compiled.set = C30_Expected(filt.glob)
           /\ out.compiled.set = None => out.pass
           /\ (/\ filt.glob \in {Some(<<"*", ".", "m", "d">>), Some(<<"r", "e", "a", "d", "m", "e", ".", "m", "d">>)}
               /\ filt.path \in {<< <<"r", "e", "a", "d", "m", "e", ".", "m", "d">> >>, << <<"d", "o", "c", "s">>, <<"r", "e", "a", "d", "m", "e", ".", "m", "d">> >>, << <<"x">>, <<"d", "o", "c", "s">>, <<"r", "e", "a", "d", "m", "e", ".", "m", "d">> >>})
                  => out.pass
           /\ filt.glob = Some(<<"d", "o", "c", "s", "/", "*", ".", "m", "d">>) => (out.pass <=> filt.path = << <<"d", "o", "c", "s">>, <<"r", "e", "a", "d", "m", "e", ".", "m", "d">> >>)

\* The glob "readme.md" applied to docs/readme.md: the path passes.
C30_Witness ==
    /\ filt # <<>> /\ filt.phase = "glob"
    /\ filt.glob = Some(<<"r", "e", "a", "d", "m", "e", ".", "m", "d">>) /\ filt.path = << <<"d", "o", "c", "s">>, <<"r", "e", "a", "d", "m", "e", ".", "m", "d">> >>
    /\ Unwrap(filt.out).pass


\* The paths below the root that are no symbolic links and whose relative
\* path contains the query, whatever the case of either, in walk order.
C22_AllMatching ==
    LET t == fuzzy.req.tree
        hit(q) == /\ t[q] # "symlink"
                  /\ contains(to_lowercase(normalize_relative_path(q)),
                              to_lowercase(fuzzy.req.query))
    IN SortSeq(SetToSeq({q \in DOMAIN t : hit(q)}), path_cmp_less)

\* C22: fuzzy_find returns the first min(total, max_results) matching paths
\* in walk order, total_matches is the number of all matching paths, a
\* directory is returned with a trailing "/", and the root is not returned.
C22_FuzzyCap ==
    (fuzzy # <<>> /\ fuzzy.pc = "returned" /\ fuzzy.req.root = "dir") =>
        LET r == Unwrap(fuzzy.result)
            all == C22_AllMatching
            cap == IF fuzzy.req.max_results = None THEN DefaultMaxResults
                   ELSE Unwrap(fuzzy.req.max_results)
            n == IF Len(all) < cap THEN Len(all) ELSE cap
        IN /\ r.ok
           /\ r.value.total_matches = Len(all)
           /\ Len(r.value.matches) = n
           /\ \A i \in 1..n :
                 LET dir == fuzzy.req.tree[all[i]] = "dir"
                 IN /\ r.value.matches[i].is_directory = dir
                    /\ r.value.matches[i].path =
                          IF dir THEN normalize_relative_path(all[i]) \o <<"/">>
                          ELSE normalize_relative_path(all[i])
           /\ \A i \in 1..Len(r.value.matches) :
                 r.value.matches[i].path \notin {<<>>, <<"/">>}

\* Three matching paths, a directory among the returned ones, and a cap of
\* two: two entries are returned and the total is three.
C22_Witness ==
    /\ fuzzy # <<>> /\ fuzzy.pc = "returned" /\ fuzzy.req.root = "dir"
    /\ fuzzy.req.max_results = Some(2)
    /\ Unwrap(fuzzy.result).value.total_matches = 3
    /\ Len(Unwrap(fuzzy.result).value.matches) = 2
    /\ \E i \in 1..2 : Unwrap(fuzzy.result).value.matches[i].is_directory


\* C23: an after-context notification appends its line to the context_after
\* of the last retained match and changes nothing else; with no retained
\* match it changes nothing.  So every line in a match's context_after
\* follows that match with no other matching line in between: the
\* after-context of a skipped match is in no retained match.
C23_AfterContextToLast ==
    /\ [](\A k \in 1..Len(collector.matches) :
            \A j \in 1..Len(collector.matches[k].context_after) :
                LastMatchBefore(stream, collector.matches[k].context_after[j])
                    = collector.matches[k].line_number)
    /\ [][(/\ scan = "running" /\ pos <= Len(stream)
           /\ EventKind(stream, ctx, pos) = "After")
          => IF collector.matches = <<>>
             THEN collector' = collector
             ELSE LET n == Len(collector.matches)
                  IN collector' =
                       [collector EXCEPT !.matches[n].context_after = Append(@, pos)]]_vars

\* The first match was skipped by offset and had an after-context line; the
\* one retained match has its own after-context line.
C23_Witness ==
    /\ scan = "running" /\ collector.skipped = 1
    /\ Len(collector.matches) = 1
    /\ collector.matches[1].context_after # <<>>
    /\ \E j \in 1..(collector.matches[1].line_number - 1) :
          EventKind(stream, ctx, j) = "After"

\* C24: a before-context line is in the context_before of at most one match,
\* the first accepted match that follows it with no matching line in
\* between (so none is carried over a skipped match), and the pending buffer
\* is empty right after every match notification that returns the continue
\* signal.
C24_BeforeContextNoLeak ==
    /\ [](\A k \in 1..Len(collector.matches) :
            \A j \in 1..Len(collector.matches[k].context_before) :
                LET line == collector.matches[k].context_before[j]
                IN /\ line < collector.matches[k].line_number
                   /\ \A i \in (line + 1)..(collector.matches[k].line_number - 1) :
                          ~stream[i]
                   /\ \A k2 \in 1..Len(collector.matches) :
                          k2 # k =>
                              \A j2 \in 1..Len(collector.matches[k2].context_before) :
                                  collector.matches[k2].context_before[j2] # line)
    /\ [][(notified' = notified + 1 /\ last_signal' = "continue")
          => collector'.context_before = <<>>]_vars

\* A skipped match had a before-context line, and the retained match that
\* follows has its own before-context.
C24_Witness ==
    /\ scan = "running" /\ collector.skipped >= 1
    /\ Len(collector.matches) = 1
    /\ collector.matches[1].context_before # <<>>
    /\ \E i \in 1..Len(stream) :
          /\ stream[i] /\ i < collector.matches[1].line_number
          /\ i > 1 /\ EventKind(stream, ctx, i - 1) = "Before"

\* C25: the match notification that makes collected_count reach max_count
\* returns the continue signal; while the limit is reached an after-context
\* notification still appends to the last retained match; the stop signal is
\* returned only by a match notification that finds the limit reached, and
\* that notification retains nothing.
C25_StopOnNextMatch ==
    [][/\ (/\ notified' = notified + 1
           /\ IsSome(collector.max_count)
           /\ collector.collected_count < Unwrap(collector.max_count)
           /\ collector'.collected_count = Unwrap(collector.max_count))
          => (last_signal' = "continue" /\ scan' = "running"
              /\ collector'.limit_reached)
       /\ (/\ scan = "running" /\ pos <= Len(stream)
           /\ collector.limit_reached /\ collector.collect_matches
           /\ EventKind(stream, ctx, pos) = "After")
          => collector'.matches[Len(collector.matches)].context_after
                = Append(collector.matches[Len(collector.matches)].context_after, pos)
       /\ (scan = "running" /\ scan' = "stopped")
          => (/\ notified' = notified + 1
              /\ last_signal' = "stop"
              /\ collector.limit_reached
              /\ collector'.matches = collector.matches
              /\ collector'.collected_count = collector.collected_count)]_vars

\* The scan was stopped by a match that came after the limit was reached, and
\* the last retained match has after-context.
C25_Witness ==
    /\ scan = "stopped" /\ collector.limit_reached
    /\ collector.matches # <<>>
    /\ collector.matches[Len(collector.matches)].context_after # <<>>

\* C26: in count mode the matches list of the collector is empty at every
\* point of the scan, a context notification of any kind leaves the collector
\* as it is, and the searcher is built with context 0 whatever context was
\* requested.
C26_CountModeKeepsNothing ==
    (scan \in {"running", "stopped", "eof", "returned"} /\ opts.mode = "Count") =>
        /\ collector.matches = <<>>
        /\ collector.context_before = <<>>
        /\ ctx = 0
        /\ \A kind \in {"Before", "After", "Other"} :
              \A line_number \in 1..MaxLines :
                  context(collector, kind, line_number) = collector

\* A count-mode scan asked with context that has counted a match.
C26_Witness ==
    /\ scan = "eof" /\ opts.mode = "Count" /\ opts.context > 0
    /\ collector.collected_count > 0
    /\ \E i \in 1..Len(stream) : ~stream[i]


\* C27: limit_reached is reported true iff max_count is set and the number
\* of retained matches is at least max_count: by search() (the collector's
\* collected_count), by a grep on a single file and by a grep on a
\* directory (the records of a content-mode result); a parallel grep
\* reports it absent.
C27_LimitReachedIff ==
    /\ scan = "returned" =>
          (result[1].limit_reached <=>
              /\ IsSome(opts.max_count)
              /\ collector.collected_count >= Unwrap(opts.max_count))
    /\ (gpc = "done" /\ req.mode = "Content") =>
          /\ (report[1].limit_reached = Some(TRUE) <=>
                 /\ IsSome(req.max_count)
                 /\ Len(report[1].matches) >= Unwrap(req.max_count))
          /\ strategy = "parallel" => report[1].limit_reached = None

\* C27 for every max_count but 0.
C27_LimitReachedIffPositive ==
    /\ (scan = "returned" /\ opts.max_count # Some(0)) =>
          (result[1].limit_reached <=>
              /\ IsSome(opts.max_count)
              /\ collector.collected_count >= Unwrap(opts.max_count))
    /\ (gpc = "done" /\ req.mode = "Content" /\ req.max_count # Some(0)) =>
          /\ (report[1].limit_reached = Some(TRUE) <=>
                 /\ IsSome(req.max_count)
                 /\ Len(report[1].matches) >= Unwrap(req.max_count))
          /\ strategy = "parallel" => report[1].limit_reached = None


\* C28: on a directory root the candidate list is exactly the regular files
\* of the walk that pass both the glob, tested on the path relative to the
\* root, and the type filter, tested on base name and extension, in walk
\* order; every record of the result is of such a file, and a result that
\* is not cut by max_count has searched all of them.
C28_BothFilters ==
    (req # <<>> /\ req.root = "dir" /\ gpc \in {"dispatch", "par", "merge", "seq", "done"}) =>
        LET both == {q \in DOMAIN tree :
                        /\ passes_glob(q, compile_glob(req.glob).set)
                        /\ passes_type_filter(q, resolve_type_filter(req.type_filter))}
        IN /\ {entries[i].path : i \in 1..Len(entries)} = both
           /\ Len(entries) = Cardinality(both)
           /\ gpc = "done" =>
                 /\ \A i \in 1..Len(report[1].matches) :
                       \E q \in both :
                           report[1].matches[i].path = normalize_relative_path(q)
                 /\ report[1].files_searched <= Cardinality(both)
                 /\ req.max_count = None => report[1].files_searched = Cardinality(both)

\* A glob and a type filter on a directory with a file that passes both, one
\* that passes the glob only and one that passes the type filter only: one
\* file was searched.
C28_Witness ==
    /\ req # <<>> /\ req.root = "dir" /\ gpc = "done"
    /\ req.glob = Some(<<"d", "o", "c", "s", "/", "*">>) /\ req.type_filter = Some(<<"p", "y">>)
    /\ DOMAIN tree = DiscoverPaths
    /\ report[1].files_searched = 1
    /\ Len(report[1].matches) = 1
    /\ report[1].matches[1].path = normalize_relative_path(<< <<"d", "o", "c", "s">>, <<"b", ".", "p", "y">> >>)

\* C29: a root that is a regular file and does not pass the glob or does not
\* pass the type filter is not searched: the result is empty.
C29_FileRootFiltered ==
    (req # <<>> /\ req.root = "file" /\ gpc = "done") =>
        \A q \in DOMAIN tree :
            ~(/\ passes_glob(q, compile_glob(req.glob).set)
              /\ passes_type_filter(q, resolve_type_filter(req.type_filter)))
                => report[1] = EmptyGrepResult(0)

\* C29 for the type filter alone.
C29_FileRootTypeFiltered ==
    (req # <<>> /\ req.root = "file" /\ gpc = "done") =>
        \A q \in DOMAIN tree :
            ~passes_type_filter(q, resolve_type_filter(req.type_filter))
                => report[1] = EmptyGrepResult(0)

\* A root file that the type filter rejects: the empty result.
C29_WitnessType ==
    /\ req # <<>> /\ req.root = "file" /\ gpc = "done"
    /\ req.type_filter = Some(<<"p", "y">>) /\ DOMAIN tree = {<< <<"a", ".", "m", "d">> >>}
    /\ report[1] = EmptyGrepResult(0)


\* C31: no pool exists before the first call of launch_task; under every
\* interleaving of the callers at most one pool is ever built, exactly one
\* once any caller holds or has used a pool, and every call, first or later,
\* spawns its work on that one pool.
C31_OnePool ==
    once # <<>> =>
        /\ once.built <= 1
        /\ (\A c \in 1..MaxCallers : once.callers[c].calls = 0) => once.built = 0
        /\ \A c \in 1..MaxCallers :
              /\ once.callers[c].pc = "spawn" =>
                    (once.built = 1 /\ once.callers[c].pool = Some(1))
              /\ \A i \in 1..Len(once.callers[c].spawned) :
                    once.built = 1 /\ once.callers[c].spawned[i] = 1

\* Two threads made their first call while the cell was not initialised,
\* and a thread has made a later call: all their work is spawned.
C31_Witness ==
    /\ once # <<>>
    /\ \E c, d \in 1..MaxCallers :
          /\ c # d
          /\ once.callers[c].raced /\ once.callers[d].raced
          /\ Len(once.callers[c].spawned) = 2
          /\ Len(once.callers[d].spawned) >= 1


\* C32: at every point of a collector pass match_count = skipped +
\* collected_count + s, s being 1 once a stop signal was returned and 0
\* before; so with max_count = m >= 1 match_count is at most offset + m + 1.
C32_MatchCountSum ==
    scan \in {"running", "stopped", "eof", "returned"} =>
        /\ collector.match_count =
              collector.skipped + collector.collected_count
                  + (IF last_signal = "stop" THEN 1 ELSE 0)
        /\ (IsSome(collector.max_count) /\ Unwrap(collector.max_count) >= 1)
              => collector.match_count
                    <= collector.offset + Unwrap(collector.max_count) + 1
        /\ scan = "returned" => result[1].match_count = collector.match_count

\* A pass with offset 1 and max_count 1 over a stream with more matches,
\* stopped by the third one: match_count is offset + m + 1.
C32_Witness ==
    /\ scan = "returned" /\ last_signal = "stop"
    /\ collector.offset = 1 /\ collector.max_count = Some(1)
    /\ collector.match_count = 3
    /\ Len(MatchLines(stream)) > 3

\* C33: skipped never exceeds offset; while skipped < offset nothing is
\* retained or counted as collected; once a match is collected skipped is
\* offset and stays as it is; and in content mode the retained matches are
\* the matches offset + 1 .. offset + collected_count of the stream.
C33_SkipThenRetain ==
    /\ [](scan \in {"running", "stopped", "eof", "returned"} =>
            /\ collector.skipped <= collector.offset
            /\ collector.skipped < collector.offset =>
                  (collector.collected_count = 0 /\ collector.matches = <<>>)
            /\ collector.collected_count > 0 => collector.skipped = collector.offset
            /\ collector.collect_matches =>
                  LineNumbers(collector.matches) =
                      SubSeq(MatchLines(stream), collector.offset + 1,
                             collector.offset + collector.collected_count))
    /\ [][collector.collected_count > 0 => collector'.skipped = collector.skipped]_vars

\* Two matches were skipped and two retained after them.
C33_Witness ==
    /\ scan = "running" /\ collector.skipped = 2 /\ collector.offset = 2
    /\ Len(collector.matches) = 2

\* C34: in content mode the matches list has collected_count elements at
\* every point; a step only appends to it or appends to the context_after of
\* its last element, leaving every earlier element as it was; and the
\* returned result has collected_count records.
C34_MatchesAppendOnly ==
    /\ [](scan \in {"running", "stopped", "eof", "returned"} /\ collector.collect_matches =>
            /\ Len(collector.matches) = collector.collected_count
            /\ scan = "returned" => Len(result[1].matches) = collector.collected_count)
    /\ [][LET old == collector.matches
              new == collector'.matches
          IN /\ Len(new) \in {Len(old), Len(old) + 1}
             /\ \A k \in 1..(Len(old) - 1) : new[k] = old[k]
             /\ Len(old) > 0 =>
                   /\ new[Len(old)].line_number = old[Len(old)].line_number
                   /\ new[Len(old)].context_before = old[Len(old)].context_before
                   /\ Len(new) > Len(old) => new[Len(old)] = old[Len(old)]]_vars

\* A returned content-mode result with two records, the first of which has
\* after-context.
C34_Witness ==
    /\ scan = "returned" /\ collector.collect_matches
    /\ Len(result[1].matches) = 2
    /\ collector.matches[1].context_after # <<>>

\* C35: limit_reached is false when the pass starts and is never cleared;
\* a match notification that finds it set changes match_count only and
\* returns the stop signal, and no notification follows a stop.
C35_LimitMonotone ==
    /\ [](scan = "running" /\ notified = 0 => ~collector.limit_reached)
    /\ [][/\ (scan # "idle" /\ collector.limit_reached) => collector'.limit_reached
          /\ (collector.limit_reached /\ notified' = notified + 1) =>
                /\ collector' = [collector EXCEPT !.match_count = @ + 1]
                /\ last_signal' = "stop" /\ scan' = "stopped"
          /\ scan = "stopped" => (notified' = notified /\ collector' = collector)]_vars

\* The limit was reached and a further match notification was processed.
C35_Witness ==
    /\ scan = "stopped" /\ collector.limit_reached
    /\ collector.match_count = collector.skipped + collector.collected_count + 1
    /\ pos <= Len(stream)

\* C36: a truncated line, ellipsis included, has at most max_columns
\* characters, for every max_columns.
C36_TruncatedFits ==
    (/\ trunc # <<>> /\ trunc.kind # "none"
     /\ truncate_line(trunc.max_columns, trunc.line).truncated) =>
        CharLen(trunc.out[1].line) <= Unwrap(trunc.max_columns)

\* C36 for every max_columns of at least 3.
C36_TruncatedFitsFromThree ==
    (/\ trunc # <<>> /\ trunc.kind # "none"
     /\ truncate_line(trunc.max_columns, trunc.line).truncated
     /\ Unwrap(trunc.max_columns) >= 3) =>
        CharLen(trunc.out[1].line) <= Unwrap(trunc.max_columns)

====
